---- MODULE Spec2Model ----
(***************************************************************************)
(* Consensus Mesh presence-consensus engine: the in-memory session map of  *)
(* the core server (ACTIVE_SESSIONS), its request handlers, the window     *)
(* closing timer of /trigger-quiz, the similarity and shield math and the  *)
(* decision logic of /finalize-session.                                    *)
(*                                                                         *)
(* Units.  Time is in milliseconds.  RSSI readings are in dB; the readings *)
(* the model draws are multiples of 10 dB, so every weight (reading + 110) *)
(* is a multiple of 10 and every product of two weights a multiple of 100. *)
(* A similarity score is kept as the exact triple (dotProduct, sNorm,      *)
(* tNorm) with that common factor 100 divided out, and compared with a     *)
(* number by cross-multiplication: score = 100 * dot / sqrt(sNorm * tNorm).*)
(* Accelerometer variance is in thousandths (0.01 is 10).                  *)
(***************************************************************************)
EXTENDS Integers, Sequences, FiniteSets, TLC

VARIABLES
    ACTIVE_SESSIONS,   \* teacherID -> reference of its session object, 0 = no property
    heap,              \* reference -> session object (FreeSlot when unallocated / unreachable)
    nextRef,           \* next fresh object reference
    timers,            \* pending setTimeout callbacks of /trigger-quiz
    now,               \* Date.now()
    finalizing,        \* teacherID -> the /finalize-session request awaiting User.find
    env,               \* process.env
    response,          \* the last response sent (res.json / res.status().send)
    call,              \* the last evaluation of a math function: arguments and result
    GLOBAL_SETTINGS    \* server/index.js: the process-wide settings object

vars == <<ACTIVE_SESSIONS, heap, nextRef, timers, now, finalizing, env, response, call, GLOBAL_SETTINGS>>

---------------------------------------------------------------------------
(* Bounds of the model *)

MaxTime == 6000
MaxOpens == 2
MaxHistory == 2
MaxTimers == 2

---------------------------------------------------------------------------
(* Program constants *)

RSSI_OFFSET == 110
QUIZ_WINDOW_MS == 6000
DEFAULT_THRESHOLD == 10
DEFAULT_MAX_RADIUS == 12
PARTIAL_FLOOR == 2
CLUSTER_SIMILARITY == 98
STATIC_MOVEMENT == 10
ATTENUATION_THRESHOLD == 22
ENV_DEFAULT_RADIUS == 12

\* server/index.js: let GLOBAL_SETTINGS = { threshold: 10 }
InitialSettings == [threshold |-> 10]

\* a session object before /trigger-quiz has no quizWindowEnd property
NoWindowEnd == -1

---------------------------------------------------------------------------
(* Fingerprints: functions from SSID to RSSI reading *)

Keys(fp) == DOMAIN fp

\* undefined, where a fingerprint is expected (a request body without the field)
Undefined == [undefined |-> 0]

IsUndefined(fp) == DOMAIN fp = {"undefined"}

RECURSIVE SumOver(_, _)
SumOver(S, f) ==
    IF S = {} THEN 0
    ELSE LET x == CHOOSE y \in S : TRUE
         IN  f[x] + SumOver(S \ {x}, f)

\* a missing key weighs as much as a reading of 0 dB would
WeightDefaulted(fp, ssid) ==
    IF ssid \in DOMAIN fp THEN fp[ssid] + RSSI_OFFSET ELSE RSSI_OFFSET

\* s[ssid] ? s[ssid] + 110 : 0   (a missing key and a reading of 0 are both falsy)
Weight(fp, ssid) ==
    IF ssid \in DOMAIN fp /\ fp[ssid] # 0 THEN fp[ssid] + RSSI_OFFSET ELSE 0

ZeroScore == [dot |-> 0, sNorm |-> 0, tNorm |-> 0]

\* 0 / 0: the quotient of the unguarded division when a norm is zero
NaNScore == [dot |-> 0, sNorm |-> 0, tNorm |-> 0, nan |-> TRUE]

IsNaN(score) == "nan" \in DOMAIN score

\* server/index.js: the version with the commonSSIDs check and no test of the magnitude
\* (dotProduct is 0 whenever a norm is 0, so the division is 0 / 0)
calculateSimilarityCommon(s, t) ==
    IF IsUndefined(s) \/ IsUndefined(t) \/ Keys(s) = {} \/ Keys(t) = {} THEN ZeroScore
    ELSE LET commonSSIDs == {k \in Keys(s) : k \in Keys(t) /\ t[k] # 0}
             allSSIDs == Keys(s) \cup Keys(t)
             dotProduct == SumOver(allSSIDs, [k \in allSSIDs |-> Weight(s, k) * Weight(t, k)])
             sNorm == SumOver(allSSIDs, [k \in allSSIDs |-> Weight(s, k) * Weight(s, k)])
             tNorm == SumOver(allSSIDs, [k \in allSSIDs |-> Weight(t, k) * Weight(t, k)])
         IN  IF commonSSIDs = {} THEN ZeroScore
             ELSE IF sNorm = 0 \/ tNorm = 0 THEN NaNScore
             ELSE [dot |-> dotProduct \div 100, sNorm |-> sNorm \div 100, tNorm |-> tNorm \div 100]

calculateSimilarity(s, t) ==
    IF IsUndefined(s) \/ IsUndefined(t) \/ Keys(s) = {} \/ Keys(t) = {} THEN ZeroScore
    ELSE LET allSSIDs == Keys(s) \cup Keys(t)
             dotProduct == SumOver(allSSIDs, [k \in allSSIDs |-> Weight(s, k) * Weight(t, k)])
             sNorm == SumOver(allSSIDs, [k \in allSSIDs |-> Weight(s, k) * Weight(s, k)])
             tNorm == SumOver(allSSIDs, [k \in allSSIDs |-> Weight(t, k) * Weight(t, k)])
         IN  IF sNorm = 0 \/ tNorm = 0 THEN ZeroScore
             ELSE [dot |-> dotProduct \div 100, sNorm |-> sNorm \div 100, tNorm |-> tNorm \div 100]

\* score >= c and score > c for a number c >= 0 (the dot product is never negative
\* for readings above -110)
ScoreAtLeast(score, c) ==
    IF score.sNorm = 0 \/ score.tNorm = 0 THEN 0 >= c
    ELSE (100 * score.dot) * (100 * score.dot) >= (c * c) * (score.sNorm * score.tNorm)

ScoreAbove(score, c) ==
    IF score.sNorm = 0 \/ score.tNorm = 0 THEN 0 > c
    ELSE (100 * score.dot) * (100 * score.dot) > (c * c) * (score.sNorm * score.tNorm)

\* twice the score against twice a number: score > c2 / 2
ScoreAboveHalf(score, c2) ==
    IF score.sNorm = 0 \/ score.tNorm = 0 THEN 0 > c2
    ELSE (200 * score.dot) * (200 * score.dot) > (c2 * c2) * (score.sNorm * score.tNorm)

\* score > highestScore for two scores (a score with a zero norm is 0)
ScoreGreater(score, highestScore) ==
    IF score.sNorm = 0 \/ score.tNorm = 0 THEN FALSE
    ELSE IF highestScore.sNorm = 0 \/ highestScore.tNorm = 0 THEN score.dot > 0
    ELSE (score.dot * score.dot) * (highestScore.sNorm * highestScore.tNorm)
            > (highestScore.dot * highestScore.dot) * (score.sNorm * score.tNorm)

\* score.toFixed(0): the score rounded to the nearest integer
ScoreFixed0(score) ==
    IF score.sNorm = 0 \/ score.tNorm = 0 THEN 0
    ELSE CHOOSE r \in 0..100 :
            /\ \/ r = 0
               \/ (2 * r - 1) * (2 * r - 1) * (score.sNorm * score.tNorm)
                     <= (200 * score.dot) * (200 * score.dot)
            /\ (200 * score.dot) * (200 * score.dot)
                  < (2 * r + 1) * (2 * r + 1) * (score.sNorm * score.tNorm)

---------------------------------------------------------------------------
(* physicsEngine.js: the displacement shield *)

\* the largest r in lo..hi with (r - 1/2)^2 <= 10000 * sum / n
RECURSIVE DistSearch(_, _, _, _)
DistSearch(lo, hi, sum, n) ==
    IF lo >= hi THEN lo
    ELSE LET mid == (lo + hi + 1) \div 2
         IN  IF (2 * mid - 1) * (2 * mid - 1) * n <= 40000 * sum
             THEN DistSearch(mid, hi, sum, n)
             ELSE DistSearch(lo, mid - 1, sum, n)

\* the distance rounded up past the hundredth toFixed(2) gives
FixedDistanceUp(sum, n) == DistSearch(0, 11000, sum, n) + 1

\* parseFloat(Math.sqrt(sum / n).toFixed(2)), in hundredths
FixedDistance(sum, n) == DistSearch(0, 11000, sum, n)

Abs(x) == IF x < 0 THEN -x ELSE x

\* parseFloat(process.env.MAX_ROOM_RADIUS) || 12.0
MaxAllowedRadius ==
    IF env.MAX_ROOM_RADIUS = 0 THEN ENV_DEFAULT_RADIUS ELSE env.MAX_ROOM_RADIUS

\* an exception leaves the function: nothing is returned
Thrown == [threw |-> "TypeError"]

Threw(result) == "threw" \in DOMAIN result

\* the second version of physicsEngine.js: no try / catch and no test of the arguments.
\* `for (const ssid in masterWifi)` runs no iteration for undefined or an empty object;
\* studentWifi.hasOwnProperty(ssid) throws a TypeError for undefined.
validateBubbleBoundaryUnguarded(studentWifi, masterWifi) ==
    IF env.PHYSICS_ENABLED # "true"
    THEN [valid |-> TRUE, bubbleDistance |-> 0]
    ELSE IF IsUndefined(masterWifi) \/ Keys(masterWifi) = {}
    THEN [valid |-> FALSE, bubbleDistance |-> 9990, status |-> "Insufficient Mesh Overlap"]
    ELSE IF IsUndefined(studentWifi)
    THEN Thrown
    ELSE
      LET common == Keys(masterWifi) \cap Keys(studentWifi)
          signalGap == [k \in common |-> masterWifi[k] - studentWifi[k]]
          wallObstructionHits ==
              Cardinality({k \in common : Abs(signalGap[k]) > ATTENUATION_THRESHOLD})
          sumSquaredDifferences ==
              SumOver(common, [k \in common |-> signalGap[k] * signalGap[k]])
          commonPoints == Cardinality(common)
          isBehindWall == wallObstructionHits >= 2
          isInsideBubble ==
              sumSquaredDifferences <= MaxAllowedRadius * MaxAllowedRadius * commonPoints
      IN  IF commonPoints < 2
          THEN [valid |-> FALSE, bubbleDistance |-> 9990,
                status |-> "Insufficient Mesh Overlap"]
          ELSE [valid |-> isInsideBubble /\ ~isBehindWall,
                bubbleDistance |-> FixedDistance(sumSquaredDifferences, commonPoints),
                limit |-> MaxAllowedRadius,
                isBehindWall |-> isBehindWall,
                meshConfidence |-> commonPoints,
                status |-> IF isBehindWall THEN "Obstruction Detected"
                           ELSE "Clear Signal Path"]

\* the shield with a mesh confidence check that is content with one shared point
validateBubbleBoundaryOnePoint(studentWifi, masterWifi) ==
    IF env.PHYSICS_ENABLED # "true"
    THEN [valid |-> TRUE, bubbleDistance |-> 0, status |-> "Physics Bypass Active"]
    ELSE IF IsUndefined(studentWifi) \/ IsUndefined(masterWifi) \/ Keys(masterWifi) = {}
    THEN [valid |-> FALSE, bubbleDistance |-> 9990, status |-> "Missing Signal Map"]
    ELSE
      LET common == Keys(masterWifi) \cap Keys(studentWifi)
          signalGap == [k \in common |-> masterWifi[k] - studentWifi[k]]
          wallObstructionHits ==
              Cardinality({k \in common : Abs(signalGap[k]) > ATTENUATION_THRESHOLD})
          sumSquaredDifferences ==
              SumOver(common, [k \in common |-> signalGap[k] * signalGap[k]])
          commonPoints == Cardinality(common)
          isBehindWall == wallObstructionHits >= 2
          isInsideBubble ==
              sumSquaredDifferences <= MaxAllowedRadius * MaxAllowedRadius * commonPoints
      IN  IF commonPoints < 1
          THEN [valid |-> FALSE, bubbleDistance |-> 9990, status |-> "Mesh Overlap Failure"]
          ELSE [valid |-> isInsideBubble /\ ~isBehindWall,
                bubbleDistance |-> FixedDistance(sumSquaredDifferences, commonPoints),
                limit |-> MaxAllowedRadius,
                isBehindWall |-> isBehindWall,
                meshConfidence |-> commonPoints,
                status |-> IF isBehindWall THEN "Obstruction (Wall-Guard)"
                           ELSE IF isInsideBubble THEN "Inside Mesh"
                           ELSE "Outside Bubble"]

validateBubbleBoundary(studentWifi, masterWifi) ==
    IF env.PHYSICS_ENABLED # "true"
    THEN [valid |-> TRUE, bubbleDistance |-> 0, status |-> "Physics Bypass Active"]
    ELSE IF IsUndefined(studentWifi) \/ IsUndefined(masterWifi) \/ Keys(masterWifi) = {}
    THEN [valid |-> FALSE, bubbleDistance |-> 9990, status |-> "Missing Signal Map"]
    ELSE
      LET common == Keys(masterWifi) \cap Keys(studentWifi)
          signalGap == [k \in common |-> masterWifi[k] - studentWifi[k]]
          wallObstructionHits ==
              Cardinality({k \in common : Abs(signalGap[k]) > ATTENUATION_THRESHOLD})
          sumSquaredDifferences ==
              SumOver(common, [k \in common |-> signalGap[k] * signalGap[k]])
          commonPoints == Cardinality(common)
          isBehindWall == wallObstructionHits >= 2
          isInsideBubble ==
              sumSquaredDifferences <= MaxAllowedRadius * MaxAllowedRadius * commonPoints
      IN  IF commonPoints < 2
          THEN [valid |-> FALSE, bubbleDistance |-> 9990, status |-> "Mesh Overlap Failure"]
          ELSE [valid |-> isInsideBubble /\ ~isBehindWall,
                bubbleDistance |-> FixedDistance(sumSquaredDifferences, commonPoints),
                limit |-> MaxAllowedRadius,
                isBehindWall |-> isBehindWall,
                meshConfidence |-> commonPoints,
                status |-> IF isBehindWall THEN "Obstruction (Wall-Guard)"
                           ELSE IF isInsideBubble THEN "Inside Mesh"
                           ELSE "Outside Bubble"]

---------------------------------------------------------------------------
(* Session objects and evidence records *)

\* an insertion-ordered object (Object.values order) is a sequence of records
NewEvidence(sID, rollNo) ==
    [sID |-> sID, rollNo |-> rollNo, wifiHistory |-> <<>>, movementHistory |-> <<>>,
     liveness |-> FALSE]

\* the object literal assigned by /set-master; threshold || 10, maxRadius || 12,
\* physicsEnabled ?? true.  prev is a history field (not in the code): the reference
\* of the session object this one replaced in ACTIVE_SESSIONS, 0 when there was none.
NewSession(wifi, threshold, maxRadius, physicsEnabled, className, prev) ==
    [masterWifi |-> wifi,
     sessionEvidence |-> <<>>,
     quizActive |-> FALSE,
     quizWindowEnd |-> NoWindowEnd,
     className |-> className,
     settings |-> [threshold |-> IF threshold = 0 THEN DEFAULT_THRESHOLD ELSE threshold,
                   maxRadius |-> IF maxRadius = 0 THEN DEFAULT_MAX_RADIUS ELSE maxRadius,
                   physicsEnabled |-> physicsEnabled],
     prev |-> prev]

FreeSlot == [free |-> TRUE]

\* position of the record of user sID in the evidence object, 0 when it has none
EvidenceIndex(sessionEvidence, sID) ==
    LET hits == {i \in 1..Len(sessionEvidence) : sessionEvidence[i].sID = sID}
    IN  IF hits = {} THEN 0 ELSE CHOOSE i \in hits : TRUE

Latest(history) == history[Len(history)]

---------------------------------------------------------------------------
(* /finalize-session: the report *)

\* studentsArray.find(e => e.rollNo === student.rollNo): the first match, 0 when none
FindByRollNo(studentsArray, rollNo) ==
    LET hits == {i \in 1..Len(studentsArray) : studentsArray[i].rollNo = rollNo}
    IN  IF hits = {} THEN 0 ELSE CHOOSE i \in hits : \A j \in hits : i <= j

\* overlap.length / teacherSSIDs.length < 0.3   (0 / 0 is NaN, and NaN < 0.3 is false)
EnvironmentMismatch(latestWifi, masterWifi) ==
    LET overlap == Keys(latestWifi) \cap Keys(masterWifi)
    IN  /\ Keys(masterWifi) # {}
        /\ 10 * Cardinality(overlap) < 3 * Cardinality(Keys(masterWifi))

\* studentsArray.filter(other => other.rollNo !== student.rollNo && similarity > 98)
SameFingerprint(studentsArray, rollNo, latestWifi) ==
    LET Test(other) ==
            /\ other.rollNo # rollNo
            /\ ScoreAbove(calculateSimilarity(latestWifi, Latest(other.wifiHistory)),
                          CLUSTER_SIMILARITY)
    IN  SelectSeq(studentsArray, Test)

\* avgMovement < 0.01, avgMovement = sum / length
IsStatic(movementHistory) ==
    LET n == Len(movementHistory)
        total == SumOver(1..n, movementHistory)
    IN  n > 0 /\ total < STATIC_MOVEMENT * n

ClusterFlagged(studentsArray, evidence) ==
    /\ Len(SameFingerprint(studentsArray, evidence.rollNo, Latest(evidence.wifiHistory))) > 0
    /\ IsStatic(evidence.movementHistory)

ProxyFlag(peers) == [kind |-> "Proxy Cluster Detected", peers |-> peers]
MismatchFlag == [kind |-> "Environment Mismatch", peers |-> <<>>]

\* flags.some(f => f.includes("Proxy"))
HasProxyFlag(flags) == \E i \in 1..Len(flags) : flags[i].kind = "Proxy Cluster Detected"

Flags(session, evidence) ==
    LET studentsArray == session.sessionEvidence
        latestWifi == Latest(evidence.wifiHistory)
        sameFingerprint == SameFingerprint(studentsArray, evidence.rollNo, latestWifi)
        f1 == IF EnvironmentMismatch(latestWifi, session.masterWifi)
              THEN <<MismatchFlag>> ELSE <<>>
    IN  IF ClusterFlagged(studentsArray, evidence)
        THEN Append(f1, ProxyFlag([i \in 1..Len(sameFingerprint) |-> sameFingerprint[i].rollNo]))
        ELSE f1

\* `ABSENT (Shield: ${bubble.status})`
ShieldAbsent(status) ==
    CASE status = "Missing Signal Map" -> "ABSENT (Shield: Missing Signal Map)"
      [] status = "Mesh Overlap Failure" -> "ABSENT (Shield: Mesh Overlap Failure)"
      [] status = "Obstruction (Wall-Guard)" -> "ABSENT (Shield: Obstruction (Wall-Guard))"
      [] status = "Outside Bubble" -> "ABSENT (Shield: Outside Bubble)"
      [] status = "Inside Mesh" -> "ABSENT (Shield: Inside Mesh)"
      [] status = "Mathematical Fault" -> "ABSENT (Shield: Mathematical Fault)"
      [] OTHER -> "ABSENT (Shield: Physics Bypass Active)"

\* the decision logic with a strict threshold comparison (score > threshold)
DecideStrict(score, settings, liveness, bubble, flags) ==
    IF ScoreAbove(score, settings.threshold) /\ liveness
    THEN IF settings.physicsEnabled /\ ~bubble.valid THEN ShieldAbsent(bubble.status)
         ELSE IF HasProxyFlag(flags) THEN "PARTIAL (Cluster Flag)"
         ELSE "PRESENT"
    ELSE IF ScoreAbove(score, PARTIAL_FLOOR) THEN "PARTIAL"
    ELSE "ABSENT"

\* the decision logic
Decide(score, settings, liveness, bubble, flags) ==
    IF ScoreAtLeast(score, settings.threshold) /\ liveness
    THEN IF settings.physicsEnabled /\ ~bubble.valid THEN ShieldAbsent(bubble.status)
         ELSE IF HasProxyFlag(flags) THEN "PARTIAL (Cluster Flag)"
         ELSE "PRESENT"
    ELSE IF ScoreAbove(score, PARTIAL_FLOOR) THEN "PARTIAL"
    ELSE "ABSENT"

Verdict(session, rollNo) ==
    LET studentsArray == session.sessionEvidence
        i == FindByRollNo(studentsArray, rollNo)
    IN  IF i = 0
        THEN [rollNo |-> rollNo, rfStability |-> 0, liveness |-> FALSE, status |-> "ABSENT",
              displacementUnits |-> 0, flags |-> <<>>]
        ELSE LET evidence == studentsArray[i]
                 latestWifi == Latest(evidence.wifiHistory)
                 score == calculateSimilarity(latestWifi, session.masterWifi)
                 bubble == validateBubbleBoundary(latestWifi, session.masterWifi)
                 flags == Flags(session, evidence)
             IN  [rollNo |-> rollNo,
                  rfStability |-> ScoreFixed0(score),
                  liveness |-> evidence.liveness,
                  status |-> Decide(score, session.settings, evidence.liveness, bubble, flags),
                  displacementUnits |-> bubble.bubbleDistance,
                  flags |-> flags]

\* Object.keys(latestWifi) and Object.keys(session.masterWifi) of the consensus check
\* throw a TypeError for undefined
VerdictThrows(session, rollNo) ==
    LET studentsArray == session.sessionEvidence
        i == FindByRollNo(studentsArray, rollNo)
    IN  /\ i # 0
        /\ \/ IsUndefined(Latest(studentsArray[i].wifiHistory))
           \/ IsUndefined(session.masterWifi)

\* the callback of enrolledStudents.map throws for some student
ReportThrows(session, enrolledStudents) ==
    \E i \in 1..Len(enrolledStudents) : VerdictThrows(session, enrolledStudents[i])

\* enrolledStudents.map(student => ...)
FullReport(session, enrolledStudents) ==
    [i \in 1..Len(enrolledStudents) |-> Verdict(session, enrolledStudents[i])]

---------------------------------------------------------------------------
(* The session map and the heap of session objects *)

\* ACTIVE_SESSIONS is a sequence of [key, ref] entries in property (insertion) order
SessionRef(t) ==
    LET hits == {i \in 1..Len(ACTIVE_SESSIONS) : ACTIVE_SESSIONS[i].key = t}
    IN  IF hits = {} THEN 0 ELSE ACTIVE_SESSIONS[CHOOSE i \in hits : TRUE].ref

HasSession(t) == SessionRef(t) # 0

\* an assignment that always adds an entry, also for a key the map already holds
AssignKeyAppend(active, t, ref) == Append(active, [key |-> t, ref |-> ref])

\* ACTIVE_SESSIONS[t] = object: an existing key keeps its place, a new key goes last
AssignKey(active, t, ref) ==
    IF \E i \in 1..Len(active) : active[i].key = t
    THEN [i \in 1..Len(active) |->
             IF active[i].key = t THEN [key |-> t, ref |-> ref] ELSE active[i]]
    ELSE Append(active, [key |-> t, ref |-> ref])

\* delete ACTIVE_SESSIONS[t]
DeleteKey(active, t) ==
    LET Keep(e) == e.key # t IN SelectSeq(active, Keep)

NotFinalizing == [ref |-> 0, atBegin |-> <<>>]

\* an object no session map entry and no pending request refers to is garbage
Collect(h, active, fin) ==
    [r \in DOMAIN h |->
        IF \/ \E i \in 1..Len(active) : active[i].ref = r
           \/ \E t \in DOMAIN fin : fin[t].ref = r
        THEN h[r] ELSE FreeSlot]

Resp(op, t, u, code, status) == [op |-> op, t |-> t, u |-> u, code |-> code, status |-> status]

---------------------------------------------------------------------------
(* Request handlers *)

\* a denied /set-master that removes the session the anchor has
SetMasterDeniedClears(t, wifi, threshold, maxRadius, physicsEnabled, sched, role) ==
    IF sched = "" /\ role # "admin"
    THEN /\ response' = Resp("set-master", t, "", 403, "No schedule today.")
         /\ ACTIVE_SESSIONS' = DeleteKey(ACTIVE_SESSIONS, t)
         /\ heap' = Collect(heap, DeleteKey(ACTIVE_SESSIONS, t), finalizing)
         /\ UNCHANGED <<nextRef, timers, now, finalizing, env, call, GLOBAL_SETTINGS>>
    ELSE /\ nextRef <= MaxOpens
         /\ LET className == IF sched # "" THEN sched ELSE "Manual-Session"
                active == AssignKey(ACTIVE_SESSIONS, t, nextRef)
                session == NewSession(wifi, threshold, maxRadius, physicsEnabled,
                                      className, SessionRef(t))
            IN  /\ ACTIVE_SESSIONS' = active
                /\ heap' = Collect([heap EXCEPT ![nextRef] = session], active, finalizing)
         /\ nextRef' = nextRef + 1
         /\ response' = Resp("set-master", t, "", 200, "success")
         /\ UNCHANGED <<timers, now, finalizing, env, call, GLOBAL_SETTINGS>>

\* POST /set-master, after Schedule.findOne has answered (sched = "" is no schedule)
SetMaster(t, wifi, threshold, maxRadius, physicsEnabled, sched, role) ==
    IF sched = "" /\ role # "admin"
    THEN /\ response' = Resp("set-master", t, "", 403, "No schedule today.")
         /\ UNCHANGED <<ACTIVE_SESSIONS, heap, nextRef, timers, now, finalizing, env, call, GLOBAL_SETTINGS>>
    ELSE /\ nextRef <= MaxOpens
         /\ LET className == IF sched # "" THEN sched ELSE "Manual-Session"
                active == AssignKey(ACTIVE_SESSIONS, t, nextRef)
                session == NewSession(wifi, threshold, maxRadius, physicsEnabled,
                                      className, SessionRef(t))
            IN  /\ ACTIVE_SESSIONS' = active
                /\ heap' = Collect([heap EXCEPT ![nextRef] = session], active, finalizing)
         /\ nextRef' = nextRef + 1
         /\ response' = Resp("set-master", t, "", 200, "success")
         /\ UNCHANGED <<timers, now, finalizing, env, call, GLOBAL_SETTINGS>>

\* a trigger that answers "triggered" without testing for the session
TriggerQuizUnchecked(t) ==
    IF ~HasSession(t)
    THEN /\ response' = Resp("trigger-quiz", t, "", 200, "triggered")
         /\ UNCHANGED <<ACTIVE_SESSIONS, heap, nextRef, timers, now, finalizing, env, call, GLOBAL_SETTINGS>>
    ELSE LET r == SessionRef(t)
             timer == [teacherID |-> t, due |-> now + QUIZ_WINDOW_MS, ref |-> r]
         IN  /\ Cardinality(timers \cup {timer}) <= MaxTimers
             /\ heap' = [heap EXCEPT ![r].quizActive = TRUE,
                                      ![r].quizWindowEnd = now + QUIZ_WINDOW_MS]
             /\ timers' = timers \cup {timer}
             /\ response' = Resp("trigger-quiz", t, "", 200, "triggered")
             /\ UNCHANGED <<ACTIVE_SESSIONS, nextRef, now, finalizing, env, call, GLOBAL_SETTINGS>>

\* a trigger that opens the window and schedules no callback
TriggerQuizNoTimer(t) ==
    IF ~HasSession(t)
    THEN /\ response' = Resp("trigger-quiz", t, "", 400, "Offline")
         /\ UNCHANGED <<ACTIVE_SESSIONS, heap, nextRef, timers, now, finalizing, env, call, GLOBAL_SETTINGS>>
    ELSE LET r == SessionRef(t)
         IN  /\ heap' = [heap EXCEPT ![r].quizActive = TRUE,
                                      ![r].quizWindowEnd = now + QUIZ_WINDOW_MS]
             /\ response' = Resp("trigger-quiz", t, "", 200, "triggered")
             /\ UNCHANGED <<ACTIVE_SESSIONS, nextRef, timers, now, finalizing, env, call, GLOBAL_SETTINGS>>

\* POST /trigger-quiz; the timer record keeps, as history, the session object the
\* window was opened on (the callback itself captures only teacherID)
TriggerQuiz(t) ==
    IF ~HasSession(t)
    THEN /\ response' = Resp("trigger-quiz", t, "", 400, "Offline")
         /\ UNCHANGED <<ACTIVE_SESSIONS, heap, nextRef, timers, now, finalizing, env, call, GLOBAL_SETTINGS>>
    ELSE LET r == SessionRef(t)
             timer == [teacherID |-> t, due |-> now + QUIZ_WINDOW_MS, ref |-> r]
         IN  /\ Cardinality(timers \cup {timer}) <= MaxTimers
             /\ heap' = [heap EXCEPT ![r].quizActive = TRUE,
                                      ![r].quizWindowEnd = now + QUIZ_WINDOW_MS]
             /\ timers' = timers \cup {timer}
             /\ response' = Resp("trigger-quiz", t, "", 200, "triggered")
             /\ UNCHANGED <<ACTIVE_SESSIONS, nextRef, now, finalizing, env, call, GLOBAL_SETTINGS>>

\* a callback that closes the window of the session object the trigger acted on
TimerFireCaptured(timer) ==
    /\ timer \in timers
    /\ now >= timer.due
    /\ timers' = timers \ {timer}
    /\ heap' = IF "quizActive" \in DOMAIN heap[timer.ref]
               THEN [heap EXCEPT ![timer.ref].quizActive = FALSE]
               ELSE heap
    /\ UNCHANGED <<ACTIVE_SESSIONS, nextRef, now, finalizing, env, response, call, GLOBAL_SETTINGS>>

\* a callback that closes the window of every session in the map
TimerFireAll(timer) ==
    /\ timer \in timers
    /\ now >= timer.due
    /\ timers' = timers \ {timer}
    /\ heap' = [r \in DOMAIN heap |->
                  IF "quizActive" \in DOMAIN heap[r]
                  THEN [heap[r] EXCEPT !.quizActive = FALSE]
                  ELSE heap[r]]
    /\ UNCHANGED <<ACTIVE_SESSIONS, nextRef, now, finalizing, env, response, call, GLOBAL_SETTINGS>>

\* the setTimeout callback: if (ACTIVE_SESSIONS[teacherID]) ....quizActive = false
TimerFire(timer) ==
    /\ timer \in timers
    /\ now >= timer.due
    /\ timers' = timers \ {timer}
    /\ heap' = IF HasSession(timer.teacherID)
               THEN [heap EXCEPT ![SessionRef(timer.teacherID)].quizActive = FALSE]
               ELSE heap
    /\ UNCHANGED <<ACTIVE_SESSIONS, nextRef, now, finalizing, env, response, call, GLOBAL_SETTINGS>>

\* the test of the loop of /discover-room with every qualifying session taken
IsBetterAnyQualifying(score, session, highestScore) ==
    ScoreAtLeast(score, session.settings.threshold)

\* score >= session.settings.threshold && score > highestScore
IsBetter(score, session, highestScore) ==
    /\ ScoreAtLeast(score, session.settings.threshold)
    /\ ScoreGreater(score, highestScore)

\* for (const [tID, session] of Object.entries(ACTIVE_SESSIONS)), from entry i on;
\* bestMatch "" is null
RECURSIVE ScanSessions(_, _, _, _, _)
ScanSessions(active, studentWifi, i, bestMatch, highestScore) ==
    IF i > Len(active) THEN bestMatch
    ELSE LET session == heap[active[i].ref]
             score == calculateSimilarity(studentWifi, session.masterWifi)
         IN  IF IsBetter(score, session, highestScore)
             THEN ScanSessions(active, studentWifi, i + 1, active[i].key, score)
             ELSE ScanSessions(active, studentWifi, i + 1, bestMatch, highestScore)

\* POST /discover-room
DiscoverRoom(studentWifi) ==
    LET bestMatch == ScanSessions(ACTIVE_SESSIONS, studentWifi, 1, "", ZeroScore)
    IN  /\ response' = IF bestMatch # ""
                       THEN Resp("discover-room", bestMatch, "", 200, "found")
                       ELSE Resp("discover-room", "", "", 404, "not_found")
        /\ UNCHANGED <<ACTIVE_SESSIONS, heap, nextRef, timers, now, finalizing, env, call, GLOBAL_SETTINGS>>

\* session.quizActive && (Date.now() < session.quizWindowEnd)
IsInsideWindow(session) ==
    /\ session.quizActive
    /\ session.quizWindowEnd # NoWindowEnd
    /\ now < session.quizWindowEnd

\* accelVariance of a request body without the field
UndefinedVariance == -1

\* accelVariance || 0
OrZero(accelVariance) == IF accelVariance = UndefinedVariance THEN 0 ELSE accelVariance

\* a submission that keeps only the latest fingerprint and motion sample of the user
PushEvidenceLatestOnly(sessionEvidence, sID, rollNo, wifi, accelVariance) ==
    LET withRecord == IF EvidenceIndex(sessionEvidence, sID) = 0
                      THEN Append(sessionEvidence, NewEvidence(sID, rollNo))
                      ELSE sessionEvidence
        i == EvidenceIndex(withRecord, sID)
    IN  [withRecord EXCEPT ![i].wifiHistory = <<wifi>>,
                           ![i].movementHistory = <<OrZero(accelVariance)>>]

\* the evidence object after a submission of user sID: the record is created on the
\* first one, then wifi and accelVariance || 0 are pushed
PushEvidence(sessionEvidence, sID, rollNo, wifi, accelVariance) ==
    LET withRecord == IF EvidenceIndex(sessionEvidence, sID) = 0
                      THEN Append(sessionEvidence, NewEvidence(sID, rollNo))
                      ELSE sessionEvidence
        i == EvidenceIndex(withRecord, sID)
    IN  [withRecord EXCEPT ![i].wifiHistory = Append(@, wifi),
                           ![i].movementHistory = Append(@, OrZero(accelVariance))]

\* POST /submit-evidence
SubmitEvidence(sID, rollNo, wifi, t, accelVariance) ==
    IF ~HasSession(t)
    THEN /\ response' = Resp("submit-evidence", t, sID, 400, "no_session")
         /\ UNCHANGED <<ACTIVE_SESSIONS, heap, nextRef, timers, now, finalizing, env, call, GLOBAL_SETTINGS>>
    ELSE LET r == SessionRef(t)
             session == heap[r]
             i == EvidenceIndex(session.sessionEvidence, sID)
         IN  /\ i # 0 => Len(session.sessionEvidence[i].wifiHistory) < MaxHistory
             /\ heap' = [heap EXCEPT ![r].sessionEvidence =
                             PushEvidence(@, sID, rollNo, wifi, accelVariance)]
             /\ response' = [Resp("submit-evidence", t, sID, 200, "ok")
                                EXCEPT !.status = IF IsInsideWindow(session)
                                                  THEN "ok quizActive" ELSE "ok"]
             /\ UNCHANGED <<ACTIVE_SESSIONS, nextRef, timers, now, finalizing, env, call, GLOBAL_SETTINGS>>

\* if (session?.quizActive)
ProofWindowOpen(t) == HasSession(t) /\ heap[SessionRef(t)].quizActive

\* a proof that flips the liveness flag of the record
SubmitLivenessToggle(sID, t) ==
    IF ProofWindowOpen(t)
    THEN LET r == SessionRef(t)
             i == EvidenceIndex(heap[r].sessionEvidence, sID)
         IN  /\ heap' = IF i # 0
                        THEN [heap EXCEPT ![r].sessionEvidence[i].liveness = ~@]
                        ELSE heap
             /\ response' = Resp("submit-liveness", t, sID, 200, "verified")
             /\ UNCHANGED <<ACTIVE_SESSIONS, nextRef, timers, now, finalizing, env, call, GLOBAL_SETTINGS>>
    ELSE /\ response' = Resp("submit-liveness", t, sID, 400, "Window Closed")
         /\ UNCHANGED <<ACTIVE_SESSIONS, heap, nextRef, timers, now, finalizing, env, call, GLOBAL_SETTINGS>>

\* POST /submit-liveness
SubmitLiveness(sID, t) ==
    IF ProofWindowOpen(t)
    THEN LET r == SessionRef(t)
             i == EvidenceIndex(heap[r].sessionEvidence, sID)
         IN  /\ heap' = IF i # 0
                        THEN [heap EXCEPT ![r].sessionEvidence[i].liveness = TRUE]
                        ELSE heap
             /\ response' = Resp("submit-liveness", t, sID, 200, "verified")
             /\ UNCHANGED <<ACTIVE_SESSIONS, nextRef, timers, now, finalizing, env, call, GLOBAL_SETTINGS>>
    ELSE /\ response' = Resp("submit-liveness", t, sID, 400, "Window Closed")
         /\ UNCHANGED <<ACTIVE_SESSIONS, heap, nextRef, timers, now, finalizing, env, call, GLOBAL_SETTINGS>>

\* POST /finalize-session up to `await User.find(...)`: the handler holds the session
\* object.  atBegin is a history field: the evidence object as it is at this moment.
FinalizeBegin(t) ==
    IF ~HasSession(t)
    THEN /\ response' = Resp("finalize-session", t, "", 400, "No active session")
         /\ UNCHANGED <<ACTIVE_SESSIONS, heap, nextRef, timers, now, finalizing, env, call, GLOBAL_SETTINGS>>
    ELSE /\ finalizing[t] = NotFinalizing
         /\ finalizing' = [finalizing EXCEPT
                ![t] = [ref |-> SessionRef(t),
                        atBegin |-> heap[SessionRef(t)].sessionEvidence]]
         /\ UNCHANGED <<ACTIVE_SESSIONS, heap, nextRef, timers, now, env, response, call, GLOBAL_SETTINGS>>

\* a finalize that tears the session down once it has answered
FinalizeCompleteTearsDown(t, enrolledStudents) ==
    /\ finalizing[t] # NotFinalizing
    /\ LET session == heap[finalizing[t].ref]
           fin == [finalizing EXCEPT ![t] = NotFinalizing]
       IN  /\ response' = IF ReportThrows(session, enrolledStudents)
                           THEN Resp("finalize-session", t, "", 0, "unhandled rejection")
                           ELSE [op |-> "finalize-session", t |-> t, u |-> "", code |-> 200,
                                 status |-> "success",
                                 reviewList |-> FullReport(session, enrolledStudents),
                                 className |-> session.className]
           /\ finalizing' = fin
           /\ ACTIVE_SESSIONS' = DeleteKey(ACTIVE_SESSIONS, t)
           /\ heap' = Collect(heap, DeleteKey(ACTIVE_SESSIONS, t), fin)
    /\ UNCHANGED <<nextRef, timers, now, env, call, GLOBAL_SETTINGS>>

\* POST /finalize-session once User.find has answered with the enrolled roll numbers
\* An exception in the map callback rejects the promise of the async handler, which
\* nothing catches: no reviewList is sent (code 0 is no answer).
FinalizeComplete(t, enrolledStudents) ==
    /\ finalizing[t] # NotFinalizing
    /\ LET session == heap[finalizing[t].ref]
           fin == [finalizing EXCEPT ![t] = NotFinalizing]
       IN  /\ response' = IF ReportThrows(session, enrolledStudents)
                           THEN Resp("finalize-session", t, "", 0, "unhandled rejection")
                           ELSE [op |-> "finalize-session", t |-> t, u |-> "", code |-> 200,
                                 status |-> "success",
                                 reviewList |-> FullReport(session, enrolledStudents),
                                 className |-> session.className]
           /\ finalizing' = fin
           /\ heap' = Collect(heap, ACTIVE_SESSIONS, fin)
    /\ UNCHANGED <<ACTIVE_SESSIONS, nextRef, timers, now, env, call, GLOBAL_SETTINGS>>

\* POST /save-final-attendance, after History.create has answered
SaveFinalAttendance(t) ==
    /\ ACTIVE_SESSIONS' = DeleteKey(ACTIVE_SESSIONS, t)
    /\ heap' = Collect(heap, DeleteKey(ACTIVE_SESSIONS, t), finalizing)
    /\ response' = Resp("save-final-attendance", t, "", 200, "success")
    /\ UNCHANGED <<nextRef, timers, now, finalizing, env, call, GLOBAL_SETTINGS>>

\* the two versions of calculateSimilarity in the repository
Similarity(fn, s, t) ==
    IF fn = "calculateSimilarity" THEN calculateSimilarity(s, t)
    ELSE calculateSimilarityCommon(s, t)

\* one evaluation of calculateSimilarity(s, t), of either version
CallSimilarity(fn, s, t) ==
    /\ call' = [fn |-> fn, s |-> s, t |-> t, result |-> Similarity(fn, s, t)]
    /\ UNCHANGED <<ACTIVE_SESSIONS, heap, nextRef, timers, now, finalizing, env, response,
                 GLOBAL_SETTINGS>>

\* one evaluation of validateBubbleBoundary(studentWifi, masterWifi)
CallShield(studentWifi, masterWifi) ==
    /\ call' = [fn |-> "validateBubbleBoundary", s |-> studentWifi, t |-> masterWifi,
                result |-> validateBubbleBoundary(studentWifi, masterWifi)]
    /\ UNCHANGED <<ACTIVE_SESSIONS, heap, nextRef, timers, now, finalizing, env, response,
                 GLOBAL_SETTINGS>>

\* one evaluation of the second version of validateBubbleBoundary
CallShieldUnguarded(studentWifi, masterWifi) ==
    /\ call' = [fn |-> "validateBubbleBoundary (second version)",
                s |-> studentWifi, t |-> masterWifi,
                result |-> validateBubbleBoundaryUnguarded(studentWifi, masterWifi)]
    /\ UNCHANGED <<ACTIVE_SESSIONS, heap, nextRef, timers, now, finalizing, env, response,
                 GLOBAL_SETTINGS>>

\* the clock moves on by half a quiz window
Tick ==
    /\ now + QUIZ_WINDOW_MS \div 2 <= MaxTime
    /\ now' = now + QUIZ_WINDOW_MS \div 2
    /\ UNCHANGED <<ACTIVE_SESSIONS, heap, nextRef, timers, finalizing, env, response, call, GLOBAL_SETTINGS>>

---------------------------------------------------------------------------
(* server/index.js: the handlers of the server with process-wide settings.   *)
(* sessionEvidence is keyed by the user id; a record is { rollNo,            *)
(* wifiHistory, liveness } and an entry of wifiHistory is { wifi }.           *)

\* toFixed(0) of NaN is the string "NaN"
FixedNaN == -1

\* { rollNo, wifiHistory: [], liveness: false }
NewEvidenceOlder(sID, rollNo) ==
    [sID |-> sID, rollNo |-> rollNo, wifiHistory |-> <<>>, liveness |-> FALSE]

\* { masterWifi: wifi, sessionEvidence: {}, quizActive: false, startTime }
NewSessionOlder(wifi) ==
    [masterWifi |-> wifi, sessionEvidence |-> <<>>, quizActive |-> FALSE]

\* POST /set-master, after Schedule.find has answered; isAllowed is the outcome of the
\* schedule loop (true for an admin): the session is deleted and assigned again
SetMasterOlder(t, wifi, isAllowed) ==
    IF ~isAllowed
    THEN /\ response' = Resp("set-master", t, "", 403, "OUT OF SCHEDULE")
         /\ UNCHANGED <<ACTIVE_SESSIONS, heap, nextRef, timers, now, finalizing, env, call,
                        GLOBAL_SETTINGS>>
    ELSE /\ nextRef <= MaxOpens
         /\ LET active == Append(DeleteKey(ACTIVE_SESSIONS, t), [key |-> t, ref |-> nextRef])
            IN  /\ ACTIVE_SESSIONS' = active
                /\ heap' = Collect([heap EXCEPT ![nextRef] = NewSessionOlder(wifi)],
                                   active, finalizing)
         /\ nextRef' = nextRef + 1
         /\ response' = Resp("set-master", t, "", 200, "success")
         /\ UNCHANGED <<timers, now, finalizing, env, call, GLOBAL_SETTINGS>>

\* POST /admin/update-settings
UpdateSettings(role, threshold) ==
    IF role # "admin"
    THEN /\ response' = Resp("update-settings", "", "", 403, "Admin only")
         /\ UNCHANGED <<ACTIVE_SESSIONS, heap, nextRef, timers, now, finalizing, env, call,
                        GLOBAL_SETTINGS>>
    ELSE /\ GLOBAL_SETTINGS' = [GLOBAL_SETTINGS EXCEPT !.threshold = threshold]
         /\ response' = Resp("update-settings", "", "", 200, "success")
         /\ UNCHANGED <<ACTIVE_SESSIONS, heap, nextRef, timers, now, finalizing, env, call>>

\* the evidence object after a submission of user sID
PushEvidenceOlder(sessionEvidence, sID, rollNo, wifi) ==
    LET withRecord == IF EvidenceIndex(sessionEvidence, sID) = 0
                      THEN Append(sessionEvidence, NewEvidenceOlder(sID, rollNo))
                      ELSE sessionEvidence
        i == EvidenceIndex(withRecord, sID)
    IN  [withRecord EXCEPT ![i].wifiHistory = Append(@, wifi)]

\* POST /submit-evidence
SubmitEvidenceOlder(sID, rollNo, wifi, t) ==
    IF ~HasSession(t)
    THEN /\ response' = Resp("submit-evidence", t, sID, 400, "no_session")
         /\ UNCHANGED <<ACTIVE_SESSIONS, heap, nextRef, timers, now, finalizing, env, call,
                        GLOBAL_SETTINGS>>
    ELSE LET r == SessionRef(t)
             i == EvidenceIndex(heap[r].sessionEvidence, sID)
         IN  /\ i # 0 => Len(heap[r].sessionEvidence[i].wifiHistory) < MaxHistory
             /\ heap' = [heap EXCEPT ![r].sessionEvidence =
                             PushEvidenceOlder(@, sID, rollNo, wifi)]
             /\ response' = Resp("submit-evidence", t, sID, 200, "ok")
             /\ UNCHANGED <<ACTIVE_SESSIONS, nextRef, timers, now, finalizing, env, call,
                            GLOBAL_SETTINGS>>

\* the loop of /discover-room, from entry i on; bestMatch "" is null
RECURSIVE ScanSessionsOlder(_, _, _, _, _)
ScanSessionsOlder(active, studentWifi, i, bestMatch, highestScore) ==
    IF i > Len(active) THEN bestMatch
    ELSE LET session == heap[active[i].ref]
             score == calculateSimilarityCommon(studentWifi, session.masterWifi)
         IN  IF /\ ScoreAtLeast(score, GLOBAL_SETTINGS.threshold)
                /\ ScoreGreater(score, highestScore)
             THEN ScanSessionsOlder(active, studentWifi, i + 1, active[i].key, score)
             ELSE ScanSessionsOlder(active, studentWifi, i + 1, bestMatch, highestScore)

\* POST /discover-room
DiscoverRoomOlder(studentWifi) ==
    LET bestMatch == ScanSessionsOlder(ACTIVE_SESSIONS, studentWifi, 1, "", ZeroScore)
    IN  /\ response' = IF bestMatch # ""
                       THEN Resp("discover-room", bestMatch, "", 200, "found")
                       ELSE Resp("discover-room", "", "", 404, "not_found")
        /\ UNCHANGED <<ACTIVE_SESSIONS, heap, nextRef, timers, now, finalizing, env, call,
                       GLOBAL_SETTINGS>>

\* the callback of hashes.map in /finalize-session
VerdictOlder(session, data) ==
    LET latestWifi == Latest(data.wifiHistory)
        score == calculateSimilarityCommon(latestWifi, session.masterWifi)
        status == IF ScoreAbove(score, GLOBAL_SETTINGS.threshold) /\ data.liveness
                  THEN "PRESENT"
                  ELSE IF ScoreAboveHalf(score, GLOBAL_SETTINGS.threshold)
                  THEN "PARTIAL"
                  ELSE "ABSENT"
    IN  [rollNo |-> IF data.rollNo = "" THEN "Unknown" ELSE data.rollNo,
         rfStability |-> IF IsNaN(score) THEN FixedNaN ELSE ScoreFixed0(score),
         status |-> status]

\* fullAttendance.filter(s => s.status !== "PRESENT")
FullReportOlder(session) ==
    LET fullAttendance == [i \in 1..Len(session.sessionEvidence) |->
                              VerdictOlder(session, session.sessionEvidence[i])]
        NotPresent(s) == s.status # "PRESENT"
    IN  SelectSeq(fullAttendance, NotPresent)

\* POST /finalize-session (the handler has no await: it runs in one step)
FinalizeSessionOlder(t) ==
    /\ response' = IF ~HasSession(t)
                   THEN Resp("finalize-session", t, "", 400, "No active session")
                   ELSE [op |-> "finalize-session", t |-> t, u |-> "", code |-> 200,
                         status |-> "success",
                         reviewList |-> FullReportOlder(heap[SessionRef(t)])]
    /\ UNCHANGED <<ACTIVE_SESSIONS, heap, nextRef, timers, now, finalizing, env, call,
                   GLOBAL_SETTINGS>>

---------------------------------------------------------------------------
(* Principals and inputs *)

Teachers == {"t1", "t2"}
Students == {"u1", "u2"}
RollNoOf(sID) == IF sID = "u1" THEN "r1" ELSE "r2"
Enrolled == <<"r1", "r2">>

WifiRoom == [a |-> -50, b |-> -50]
WifiNear == [a |-> -50, b |-> -70]
WifiClose == [a |-> -50, b |-> -60]
WifiFar == [a |-> -80, b |-> -80]
WifiEdge == [a |-> -40, b |-> -100]
WifiOne == [a |-> -50]
WifiWeak == [a |-> -100, c |-> -50]
WifiOther == [c |-> -50]

NoResponse == Resp("", "", "", 0, "")

\* no math function has been evaluated on its own
NoCall == [fn |-> ""]

Init ==
    /\ ACTIVE_SESSIONS = <<>>
    /\ heap = [r \in 1..MaxOpens |-> FreeSlot]
    /\ nextRef = 1
    /\ timers = {}
    /\ now = 0
    /\ finalizing = [t \in Teachers |-> NotFinalizing]
    /\ env = [PHYSICS_ENABLED |-> "true", MAX_ROOM_RADIUS |-> 0]
    /\ response = NoResponse
    /\ call = NoCall
    /\ GLOBAL_SETTINGS = InitialSettings

---------------------------------------------------------------------------
(* The whole server, every handler against every session *)

Next ==
    \/ \E t \in Teachers, sched \in {"", "CSE"} :
          SetMaster(t, WifiRoom, 0, 0, TRUE, sched, "teacher")
    \/ \E t \in Teachers : TriggerQuiz(t)
    \/ \E timer \in timers : TimerFire(timer)
    \/ \E u \in Students, t \in Teachers, wifi \in {WifiRoom, WifiNear} :
          SubmitEvidence(u, RollNoOf(u), wifi, t, 0)
    \/ \E u \in Students, t \in Teachers : SubmitLiveness(u, t)
    \/ \E wifi \in {WifiRoom, WifiNear} : DiscoverRoom(wifi)
    \/ \E t \in Teachers : FinalizeBegin(t)
    \/ \E t \in Teachers : FinalizeComplete(t, Enrolled)
    \/ \E t \in Teachers : SaveFinalAttendance(t)
    \/ Tick

Spec == Init /\ [][Next]_vars

---------------------------------------------------------------------------
(* The liveness window of one anchor: open, trigger, timer, evidence, proof, *)
(* save, against the clock                                                   *)

NextWindow ==
    \/ \E sched \in {"", "CSE"} : SetMaster("t1", WifiRoom, 0, 0, TRUE, sched, "teacher")
    \/ TriggerQuiz("t1")
    \/ \E timer \in timers : TimerFire(timer)
    \/ \E u \in Students : SubmitEvidence(u, RollNoOf(u), WifiRoom, "t1", 0)
    \/ \E u \in Students : SubmitLiveness(u, "t1")
    \/ SaveFinalAttendance("t1")
    \/ Tick

SpecWindow == Init /\ [][NextWindow]_vars

---------------------------------------------------------------------------
(* Finalization of one anchor's session against evidence, reopen and save *)

NextFinalize ==
    \/ SetMaster("t1", WifiRoom, 0, 0, TRUE, "CSE", "teacher")
    \/ TriggerQuiz("t1")
    \/ \E wifi \in {WifiRoom, WifiNear} : SubmitEvidence("u1", "r1", wifi, "t1", 0)
    \/ FinalizeBegin("t1")
    \/ FinalizeComplete("t1", Enrolled)
    \/ SaveFinalAttendance("t1")

SpecFinalize == Init /\ [][NextFinalize]_vars

---------------------------------------------------------------------------
(* Discovery: anchors open, reopen and close sessions, a participant asks for *)
(* the room of a fingerprint                                                 *)

NextDiscover ==
    \/ \E t \in Teachers, wifi \in {WifiRoom, WifiNear, WifiOther}, threshold \in {0, 80} :
          SetMaster(t, wifi, threshold, 0, TRUE, "CSE", "teacher")
    \/ \E t \in Teachers : SaveFinalAttendance(t)
    \/ \E wifi \in {WifiRoom, WifiNear, WifiEdge, WifiWeak} : DiscoverRoom(wifi)

SpecDiscover == Init /\ [][NextDiscover]_vars

---------------------------------------------------------------------------
(* The decision logic: finalization of a session whose settings and evidence *)
(* are drawn from the cases of the classification                            *)

DecisionWifi == {WifiRoom, WifiClose, WifiFar, WifiEdge, WifiOne, WifiWeak, WifiOther}

\* the evidence record of a user after one submission, and its liveness proof
OneSubmission(sID, wifi, accelVariance, liveness) ==
    [PushEvidence(<<>>, sID, RollNoOf(sID), wifi, accelVariance) EXCEPT ![1].liveness = liveness]

InitDecision ==
    /\ ACTIVE_SESSIONS = <<[key |-> "t1", ref |-> 1]>>
    /\ \E threshold \in {0, 80}, physicsEnabled \in BOOLEAN,
          wifi1 \in DecisionWifi, accel1 \in {0, 50}, live1 \in BOOLEAN,
          second \in BOOLEAN, wifi2 \in {WifiRoom, WifiOne}, accel2 \in {0, 50} :
          LET e1 == OneSubmission("u1", wifi1, accel1, live1)
              e2 == IF second THEN OneSubmission("u2", wifi2, accel2, TRUE) ELSE <<>>
          IN  /\ ~second => (wifi2 = WifiRoom /\ accel2 = 0)
              /\ heap = [r \in 1..MaxOpens |->
                           IF r = 1
                           THEN [NewSession(WifiRoom, threshold, 0, physicsEnabled, "CSE", 0)
                                   EXCEPT !.sessionEvidence = e1 \o e2]
                           ELSE FreeSlot]
    /\ nextRef = 2
    /\ timers = {}
    /\ now = 0
    /\ finalizing = [t \in Teachers |-> NotFinalizing]
    /\ env \in {[PHYSICS_ENABLED |-> p, MAX_ROOM_RADIUS |-> 0] : p \in {"true", "false"}}
    /\ response = NoResponse
    /\ call = NoCall
    /\ GLOBAL_SETTINGS = InitialSettings

NextDecision ==
    \/ FinalizeBegin("t1")
    \/ FinalizeComplete("t1", Enrolled)

SpecDecision == InitDecision /\ [][NextDecision]_vars

---------------------------------------------------------------------------
(* The shield in finalization: a session whose radius and shield switch, and  *)
(* the process environment, are drawn from the cases of the shield            *)

ShieldWifi == {WifiRoom, WifiClose, WifiNear, WifiFar, WifiEdge, WifiOne}

InitShield ==
    /\ ACTIVE_SESSIONS = <<[key |-> "t1", ref |-> 1]>>
    /\ \E maxRadius \in {0, 20}, physicsEnabled \in BOOLEAN,
          wifi1 \in ShieldWifi, live1 \in BOOLEAN :
          heap = [r \in 1..MaxOpens |->
                    IF r = 1
                    THEN [NewSession(WifiRoom, 0, maxRadius, physicsEnabled, "CSE", 0)
                            EXCEPT !.sessionEvidence = OneSubmission("u1", wifi1, 0, live1)]
                    ELSE FreeSlot]
    /\ nextRef = 2
    /\ timers = {}
    /\ now = 0
    /\ finalizing = [t \in Teachers |-> NotFinalizing]
    /\ env \in {[PHYSICS_ENABLED |-> p, MAX_ROOM_RADIUS |-> r] :
                   p \in {"true", "false"}, r \in {0, 15}}
    /\ response = NoResponse
    /\ call = NoCall
    /\ GLOBAL_SETTINGS = InitialSettings

SpecShield == InitShield /\ [][NextDecision]_vars

---------------------------------------------------------------------------
(* The math functions on their own: every pair of fingerprints over two      *)
(* access points with readings 0, -50, -100 and -110 dB, the empty one too   *)

FingerprintKeys == {"a", "b"}
Readings == {0, -50, -100, -110}
Fingerprints == UNION {[K -> Readings] : K \in SUBSET FingerprintKeys}
\* the shield is also called with undefined in place of a fingerprint
ShieldArguments == Fingerprints \cup {Undefined}
SimilarityVersions == {"calculateSimilarity", "calculateSimilarity (server/index.js)"}

InitMath ==
    /\ ACTIVE_SESSIONS = <<>>
    /\ heap = [r \in 1..MaxOpens |-> FreeSlot]
    /\ nextRef = 1
    /\ timers = {}
    /\ now = 0
    /\ finalizing = [t \in Teachers |-> NotFinalizing]
    /\ env \in {[PHYSICS_ENABLED |-> p, MAX_ROOM_RADIUS |-> 0] : p \in {"true", "false"}}
    /\ response = NoResponse
    /\ call = NoCall
    /\ GLOBAL_SETTINGS = InitialSettings

\* one evaluation per behaviour: the functions keep no state between calls
NextMath ==
    \/ \E fn \in SimilarityVersions, s \in Fingerprints, t \in Fingerprints :
          call = NoCall /\ CallSimilarity(fn, s, t)
    \/ \E s \in ShieldArguments, t \in ShieldArguments :
          call = NoCall /\ CallShield(s, t)
    \/ \E s \in ShieldArguments, t \in ShieldArguments :
          call = NoCall /\ CallShieldUnguarded(s, t)

SpecMath == InitMath /\ [][NextMath]_vars

---------------------------------------------------------------------------
(* Finalization of a session whose participants submit evidence with and     *)
(* without a fingerprint, with and without a motion value                    *)

\* the state after one POST /set-master of teacher t1
InitOpen ==
    /\ ACTIVE_SESSIONS = <<[key |-> "t1", ref |-> 1]>>
    /\ heap = [r \in 1..MaxOpens |->
                 IF r = 1 THEN NewSession(WifiRoom, 0, 0, TRUE, "CSE", 0) ELSE FreeSlot]
    /\ nextRef = 2
    /\ timers = {}
    /\ now = 0
    /\ finalizing = [t \in Teachers |-> NotFinalizing]
    /\ env \in {[PHYSICS_ENABLED |-> p, MAX_ROOM_RADIUS |-> 0] : p \in {"true", "false"}}
    /\ response = NoResponse
    /\ call = NoCall
    /\ GLOBAL_SETTINGS = InitialSettings

NextFault ==
    \/ \E wifi \in {WifiRoom, Undefined} : SubmitEvidence("u1", "r1", wifi, "t1", 0)
    \/ \E accelVariance \in {UndefinedVariance, 50} :
          SubmitEvidence("u2", "r2", WifiRoom, "t1", accelVariance)
    \/ FinalizeBegin("t1")
    \/ FinalizeComplete("t1", Enrolled)

SpecFault == InitOpen /\ [][NextFault]_vars

---------------------------------------------------------------------------
(* The server of server/index.js: one session, whose evidence is drawn from   *)
(* the cases of the classification, the settings update, discovery and       *)
(* finalization                                                              *)

OlderThresholds == {10, 80}

\* the evidence record of a user after one submission, and its liveness proof
OneSubmissionOlder(sID, wifi, liveness) ==
    [PushEvidenceOlder(<<>>, sID, RollNoOf(sID), wifi) EXCEPT ![1].liveness = liveness]

InitOlder ==
    /\ ACTIVE_SESSIONS = <<[key |-> "t1", ref |-> 1]>>
    /\ \E wifi1 \in {WifiRoom, WifiOne, WifiWeak, WifiOther}, live1 \in BOOLEAN,
          first \in BOOLEAN :
          /\ ~first => (wifi1 = WifiRoom /\ ~live1)
          /\ heap = [r \in 1..MaxOpens |->
                       IF r = 1
                       THEN [NewSessionOlder(WifiRoom) EXCEPT !.sessionEvidence =
                               IF first THEN OneSubmissionOlder("u1", wifi1, live1)
                               ELSE <<>>]
                       ELSE FreeSlot]
    /\ nextRef = 2
    /\ timers = {}
    /\ now = 0
    /\ finalizing = [t \in Teachers |-> NotFinalizing]
    /\ env = [PHYSICS_ENABLED |-> "true", MAX_ROOM_RADIUS |-> 0]
    /\ response = NoResponse
    /\ call = NoCall
    /\ GLOBAL_SETTINGS = InitialSettings

NextOlder ==
    \/ \E isAllowed \in BOOLEAN : SetMasterOlder("t1", WifiRoom, isAllowed)
    \/ \E role \in {"admin", "teacher"}, threshold \in OlderThresholds :
          UpdateSettings(role, threshold)
    \/ \E wifi \in {WifiRoom, WifiOne} : SubmitEvidenceOlder("u2", "r2", wifi, "t1")
    \/ \E wifi \in {WifiRoom, WifiOne, WifiWeak} : DiscoverRoomOlder(wifi)
    \/ FinalizeSessionOlder("t1")

SpecOlder == InitOlder /\ [][NextOlder]_vars

---------------------------------------------------------------------------
(* The life of one session, from its opening to its teardown: trigger, timer, *)
(* evidence, proof, finalize, save, against the clock                        *)

NextSession ==
    \/ TriggerQuiz("t1")
    \/ \E timer \in timers : TimerFire(timer)
    \/ \E wifi \in {WifiRoom, WifiNear} : SubmitEvidence("u1", "r1", wifi, "t1", 0)
    \/ SubmitLiveness("u1", "t1")
    \/ FinalizeBegin("t1")
    \/ FinalizeComplete("t1", Enrolled)
    \/ SaveFinalAttendance("t1")
    \/ Tick

SpecSession == InitOpen /\ [][NextSession]_vars

---------------------------------------------------------------------------
(* Requests racing a reopen: a finalize request that waits for the enrollment *)
(* list holds the session object while the anchor reopens or closes          *)

NextRace ==
    \/ SetMaster("t1", WifiRoom, 0, 0, TRUE, "CSE", "teacher")
    \/ TriggerQuiz("t1")
    \/ \E timer \in timers : TimerFire(timer)
    \/ SubmitEvidence("u1", "r1", WifiRoom, "t1", 0)
    \/ SubmitLiveness("u1", "t1")
    \/ FinalizeBegin("t1")
    \/ SaveFinalAttendance("t1")
    \/ Tick

SpecRace == Init /\ [][NextRace]_vars

---------------------------------------------------------------------------
(* Two anchors: the session of t2 holds evidence, a confirmed liveness flag   *)
(* and an open window with its timer pending, while the session of t1 is     *)
(* operated on                                                               *)

\* the state after /set-master of t1 and of t2, and /submit-evidence, /trigger-quiz and
\* /submit-liveness on the session of t2 at time 0
InitTwoAnchors ==
    /\ ACTIVE_SESSIONS = <<[key |-> "t1", ref |-> 1], [key |-> "t2", ref |-> 2]>>
    /\ heap = [r \in 1..MaxOpens |->
                 IF r = 1 THEN NewSession(WifiRoom, 0, 0, TRUE, "CSE", 0)
                 ELSE IF r = 2
                 THEN [NewSession(WifiFar, 0, 0, TRUE, "ECE", 0) EXCEPT
                         !.sessionEvidence = OneSubmission("u2", WifiFar, 0, TRUE),
                         !.quizActive = TRUE,
                         !.quizWindowEnd = QUIZ_WINDOW_MS]
                 ELSE FreeSlot]
    /\ nextRef = 3
    /\ timers = {[teacherID |-> "t2", due |-> QUIZ_WINDOW_MS, ref |-> 2]}
    /\ now = 0
    /\ finalizing = [t \in Teachers |-> NotFinalizing]
    /\ env = [PHYSICS_ENABLED |-> "true", MAX_ROOM_RADIUS |-> 0]
    /\ response = NoResponse
    /\ call = NoCall
    /\ GLOBAL_SETTINGS = InitialSettings

NextTwoAnchors ==
    \/ TriggerQuiz("t1")
    \/ \E timer \in timers : TimerFire(timer)
    \/ SubmitEvidence("u1", "r1", WifiRoom, "t1", 0)
    \/ SubmitLiveness("u1", "t1")
    \/ FinalizeBegin("t1")
    \/ FinalizeComplete("t1", Enrolled)
    \/ SaveFinalAttendance("t1")
    \/ Tick

SpecTwoAnchors == InitTwoAnchors /\ [][NextTwoAnchors]_vars

---------------------------------------------------------------------------
(* Evidence submissions of several participants of one session, interleaved *)

NextEvidence ==
    \/ \E u \in Students, wifi \in {WifiRoom, WifiNear} :
          SubmitEvidence(u, RollNoOf(u), wifi, "t1", 0)
    \/ SaveFinalAttendance("t1")

SpecEvidence == InitOpen /\ [][NextEvidence]_vars

---------------------------------------------------------------------------
(* The consensus check: finalization of a session whose anchor sees four      *)
(* access points, and a participant who sees all, two, one or none of them   *)

WifiHall == [a |-> -50, b |-> -50, c |-> -50, d |-> -50]
WifiAlien == [e |-> -50]

MismatchWifi == {WifiHall, WifiRoom, WifiOne, WifiOther, WifiAlien}

InitMismatch ==
    /\ ACTIVE_SESSIONS = <<[key |-> "t1", ref |-> 1]>>
    /\ \E physicsEnabled \in BOOLEAN, wifi1 \in MismatchWifi, live1 \in BOOLEAN :
          heap = [r \in 1..MaxOpens |->
                    IF r = 1
                    THEN [NewSession(WifiHall, 0, 0, physicsEnabled, "CSE", 0)
                            EXCEPT !.sessionEvidence = OneSubmission("u1", wifi1, 50, live1)]
                    ELSE FreeSlot]
    /\ nextRef = 2
    /\ timers = {}
    /\ now = 0
    /\ finalizing = [t \in Teachers |-> NotFinalizing]
    /\ env \in {[PHYSICS_ENABLED |-> p, MAX_ROOM_RADIUS |-> 0] : p \in {"true", "false"}}
    /\ response = NoResponse
    /\ call = NoCall
    /\ GLOBAL_SETTINGS = InitialSettings

SpecMismatch == InitMismatch /\ [][NextDecision]_vars

---------------------------------------------------------------------------
(* Identity: participants submit evidence under their own roll number or      *)
(* under another participant's                                               *)

NextIdentity ==
    \/ SubmitEvidence("u1", "r1", WifiRoom, "t1", 0)
    \/ \E rollNo \in {"r1", "r2"} : SubmitEvidence("u2", rollNo, WifiEdge, "t1", 0)
    \/ TriggerQuiz("t1")
    \/ \E u \in Students : SubmitLiveness(u, "t1")
    \/ FinalizeBegin("t1")
    \/ FinalizeComplete("t1", Enrolled)

SpecIdentity == InitOpen /\ [][NextIdentity]_vars

---------------------------------------------------------------------------
(* The liveness window under fair scheduling: time passes and the event loop *)
(* runs every callback that is due.  Triggers happen while their callback    *)
(* can still become due before the clock of the model stops.                 *)

NextFair ==
    \/ SetMaster("t1", WifiRoom, 0, 0, TRUE, "CSE", "teacher")
    \/ (now + QUIZ_WINDOW_MS <= MaxTime /\ TriggerQuiz("t1"))
    \/ \E timer \in timers : TimerFire(timer)
    \/ SubmitEvidence("u1", "r1", WifiRoom, "t1", 0)
    \/ SubmitLiveness("u1", "t1")
    \/ SaveFinalAttendance("t1")
    \/ Tick

SpecFair ==
    /\ Init
    /\ [][NextFair]_vars
    /\ WF_vars(Tick)
    /\ WF_vars(\E timer \in timers : TimerFire(timer))

---------------------------------------------------------------------------
(* Liveness window claims (SpecWindow) *)

LiveSession(t) == heap[SessionRef(t)]

\* the window of the live session of t has reached its expiry time
WindowExpired(t) ==
    /\ HasSession(t)
    /\ LiveSession(t).quizWindowEnd # NoWindowEnd
    /\ now >= LiveSession(t).quizWindowEnd

\* C1: a liveness proof submitted at or after the window's expiry time (trigger time +
\* window duration) is rejected and changes no liveness flag, whether or not the window
\* closing callback has run yet.
C1_ExpiredProofRejected ==
    [][\A u \in Students, t \in Teachers :
          (SubmitLiveness(u, t) /\ WindowExpired(t))
             => (response'.code # 200 /\ heap' = heap)]_vars

\* C2: a window closing callback scheduled on an earlier session of an anchor does not
\* close the window of the anchor's later session: a window triggered on the later
\* session that has not reached its own expiry is still open after the callback.
C2_StaleCallbackKeepsWindow ==
    [][\A timer \in timers :
          (/\ TimerFire(timer)
           /\ HasSession(timer.teacherID)
           /\ timer.ref # SessionRef(timer.teacherID)
           /\ IsInsideWindow(LiveSession(timer.teacherID)))
             => heap'[SessionRef(timer.teacherID)].quizActive]_vars

\* C3: after a re-trigger the window stays open until the expiry the last trigger set:
\* a callback of the same session that runs before that expiry does not close it.
C3_RetriggerResetsExpiry ==
    [][\A timer \in timers :
          (/\ TimerFire(timer)
           /\ HasSession(timer.teacherID)
           /\ timer.ref = SessionRef(timer.teacherID)
           /\ IsInsideWindow(LiveSession(timer.teacherID)))
             => heap'[SessionRef(timer.teacherID)].quizActive]_vars

\* C10: a liveness proof is acknowledged as verified only if the window is open and the
\* submitting participant already has an evidence record in that session.
C10_ProofNeedsEvidence ==
    [][\A u \in Students, t \in Teachers :
          (SubmitLiveness(u, t) /\ response'.status = "verified")
             => /\ ProofWindowOpen(t)
                /\ EvidenceIndex(LiveSession(t).sessionEvidence, u) # 0]_vars

---------------------------------------------------------------------------
(* Decision claims (SpecDecision) *)

FinalizeAnswered == response.op = "finalize-session" /\ response.code = 200

\* what the verdict of roll number rollNo was computed from in the session of t1
EvidenceFor(rollNo) ==
    LET studentsArray == LiveSession("t1").sessionEvidence
    IN  studentsArray[FindByRollNo(studentsArray, rollNo)]

HasEvidence(rollNo) == FindByRollNo(LiveSession("t1").sessionEvidence, rollNo) # 0

ScoreFor(rollNo) ==
    calculateSimilarity(Latest(EvidenceFor(rollNo).wifiHistory), LiveSession("t1").masterWifi)

ShieldFor(rollNo) ==
    validateBubbleBoundary(Latest(EvidenceFor(rollNo).wifiHistory), LiveSession("t1").masterWifi)

Threshold == LiveSession("t1").settings.threshold

\* score >= threshold AND livenessConfirmed
Qualifies(rollNo) ==
    ScoreAtLeast(ScoreFor(rollNo), Threshold) /\ EvidenceFor(rollNo).liveness

ShieldPasses(rollNo) ==
    ~LiveSession("t1").settings.physicsEnabled \/ ShieldFor(rollNo).valid

Verdicts == {response.reviewList[i] : i \in 1..Len(response.reviewList)}

C5_PartialAboveHalfThreshold ==
    FinalizeAnswered =>
        \A v \in Verdicts :
            (HasEvidence(v.rollNo) /\ ~Qualifies(v.rollNo)) =>
                v.status = IF ScoreAboveHalf(ScoreFor(v.rollNo), Threshold)
                           THEN "PARTIAL" ELSE "ABSENT"

\* the flags the report can carry are the environment and the cluster flag
IsShieldFlag(flag) == flag.kind \notin {"Environment Mismatch", "Proxy Cluster Detected"}

\* C6: score >= threshold, liveness confirmed, shield enabled and its result invalid:
\* the status is ABSENT and the flag set holds a shield-related flag.
C6_ShieldAbsentFlagged ==
    FinalizeAnswered =>
        \A v \in Verdicts :
            (/\ HasEvidence(v.rollNo)
             /\ Qualifies(v.rollNo)
             /\ LiveSession("t1").settings.physicsEnabled
             /\ ~ShieldFor(v.rollNo).valid)
                => (/\ v.status = "ABSENT"
                    /\ \E i \in 1..Len(v.flags) : IsShieldFlag(v.flags[i]))

\* the pair of records is near-identical and both devices are static
ClusterPair(e, other) ==
    /\ other.rollNo # e.rollNo
    /\ ScoreAbove(calculateSimilarity(Latest(e.wifiHistory), Latest(other.wifiHistory)),
                  CLUSTER_SIMILARITY)
    /\ IsStatic(e.movementHistory)
    /\ IsStatic(other.movementHistory)

\* C7: a participant carries the cluster flag exactly when some other participant's
\* latest fingerprint has similarity > 98 with theirs and both of them have an average
\* motion below 0.01.
C7_ClusterNeedsBothStatic ==
    FinalizeAnswered =>
        \A v \in Verdicts :
            HasEvidence(v.rollNo) =>
                (HasProxyFlag(v.flags)
                    <=> \E j \in 1..Len(LiveSession("t1").sessionEvidence) :
                           ClusterPair(EvidenceFor(v.rollNo),
                                       LiveSession("t1").sessionEvidence[j]))

---------------------------------------------------------------------------
(* Finalization and reopen claims (SpecFinalize) *)

\* C8: the verdict list of a finalize reflects only the evidence present when the
\* finalize began (later evidence is rejected or excluded).
C8_FinalizeSnapshot ==
    [][\A t \in Teachers :
          FinalizeComplete(t, Enrolled)
             => response'.reviewList
                  = FullReport([heap[finalizing[t].ref]
                                   EXCEPT !.sessionEvidence = finalizing[t].atBegin],
                               Enrolled)]_vars

NoDuplicateKeys ==
    \A i, j \in 1..Len(ACTIVE_SESSIONS) :
        ACTIVE_SESSIONS[i].key = ACTIVE_SESSIONS[j].key => i = j

\* C9: whenever the session object of an anchor changes to another one, that one is a
\* fresh object with an empty evidence map and a closed window; the evidence of a
\* session object changes only while it is the anchor's session; a finalize takes the
\* session that is the anchor's when it starts; and the map never holds two entries
\* for one anchor.
C9_ReopenReplaces ==
    [][/\ \A t \in Teachers :
             LET old == SessionRef(t)
                 new == SessionRef(t)'
             IN  /\ (new # 0 /\ new # old) =>
                       /\ heap[new] = FreeSlot
                       /\ heap'[new].sessionEvidence = <<>>
                       /\ ~heap'[new].quizActive
                       /\ heap'[new].quizWindowEnd = NoWindowEnd
                 /\ (finalizing'[t] # finalizing[t] /\ finalizing'[t] # NotFinalizing)
                       => /\ finalizing'[t].ref = old
                          /\ finalizing'[t].atBegin = heap[old].sessionEvidence
       /\ \A r \in DOMAIN heap :
             (/\ heap[r] # FreeSlot /\ heap'[r] # FreeSlot
              /\ heap'[r].sessionEvidence # heap[r].sessionEvidence)
                 => \E t \in Teachers : r = SessionRef(t) /\ r = SessionRef(t)'
       /\ NoDuplicateKeys']_vars

\* a finalize has started on a session that replaced an earlier one of the same anchor
\* and has received evidence since
C9_Witness ==
    /\ finalizing["t1"] # NotFinalizing
    /\ finalizing["t1"].ref = SessionRef("t1")
    /\ LiveSession("t1").prev # 0
    /\ finalizing["t1"].atBegin # <<>>

---------------------------------------------------------------------------
(* Discovery claims (SpecDiscover) *)

ScoreAgainst(wifi, t) == calculateSimilarity(wifi, LiveSession(t).masterWifi)

\* the anchors with an open session whose score meets that session's own threshold
Qualifying(wifi) ==
    {t \in Teachers :
        /\ HasSession(t)
        /\ ScoreAtLeast(ScoreAgainst(wifi, t), LiveSession(t).settings.threshold)}

\* the qualifying anchors no other qualifying anchor beats
Highest(wifi) ==
    {t \in Qualifying(wifi) :
        \A q \in Qualifying(wifi) : ~ScoreGreater(ScoreAgainst(wifi, q), ScoreAgainst(wifi, t))}

DiscoveryWifi == {WifiRoom, WifiNear, WifiEdge, WifiWeak}

\* C11: discover answers with an anchor of highest score among the open sessions whose
\* score is at or above their own threshold, and answers not-found exactly when no open
\* session qualifies.
C11_DiscoverHighestQualifying ==
    [][\A wifi \in DiscoveryWifi :
          DiscoverRoom(wifi) =>
             IF Qualifying(wifi) = {}
             THEN response'.code = 404 /\ response'.status = "not_found"
             ELSE /\ response'.code = 200 /\ response'.status = "found"
                  /\ response'.t \in Highest(wifi)]_vars

\* discover has answered with the second of two open qualifying sessions, the one of
\* strictly higher score
C11_Witness ==
    /\ response.op = "discover-room" /\ response.code = 200
    /\ Len(ACTIVE_SESSIONS) = 2
    /\ response.t = ACTIVE_SESSIONS[2].key
    /\ \E wifi \in DiscoveryWifi :
          /\ Qualifying(wifi) = Teachers
          /\ Highest(wifi) = {response.t}

\* anchor-id lexical order on the anchors of the model
LexicallyFirst(S) == IF "t1" \in S THEN "t1" ELSE "t2"

\* C12: when several open sessions tie on the highest qualifying score, discover answers
\* with the one first in anchor-id lexical order, whatever the order of opening.
C12_TieLexicalOrder ==
    [][\A wifi \in DiscoveryWifi :
          (DiscoverRoom(wifi) /\ Qualifying(wifi) # {})
             => response'.t = LexicallyFirst(Highest(wifi))]_vars

---------------------------------------------------------------------------
(* Shield claims in finalization (SpecShield) *)

SharedKeys(a, b) == Keys(a) \cap Keys(b)

SumSquaredGaps(a, b) ==
    SumOver(SharedKeys(a, b), [k \in SharedKeys(a, b) |-> (b[k] - a[k]) * (b[k] - a[k])])

\* at least 2 shared dimensions have an absolute gap above the attenuation threshold
Obstructed(a, b) ==
    Cardinality({k \in SharedKeys(a, b) : Abs(b[k] - a[k]) > ATTENUATION_THRESHOLD}) >= 2

\* the RMS displacement is at most radius
WithinRadius(a, b, radius) ==
    SumSquaredGaps(a, b) <= radius * radius * Cardinality(SharedKeys(a, b))

LatestFor(rollNo) == Latest(EvidenceFor(rollNo).wifiHistory)

SessionRadius == LiveSession("t1").settings.maxRadius

SessionShieldOn == LiveSession("t1").settings.physicsEnabled

\* C13: with at least 2 shared keys and the shield enabled, the shield result is valid
\* exactly when the RMS displacement is at most the radius of the session's settings and
\* fewer than 2 shared dimensions have a gap above 22.
C13_RadiusOfSession ==
    FinalizeAnswered =>
        \A v \in Verdicts :
            (/\ HasEvidence(v.rollNo)
             /\ SessionShieldOn /\ env.PHYSICS_ENABLED = "true"
             /\ Cardinality(SharedKeys(LatestFor(v.rollNo), LiveSession("t1").masterWifi)) >= 2)
                => (ShieldFor(v.rollNo).valid
                      <=> /\ WithinRadius(LatestFor(v.rollNo), LiveSession("t1").masterWifi,
                                          SessionRadius)
                          /\ ~Obstructed(LatestFor(v.rollNo), LiveSession("t1").masterWifi))

\* C14: the shield is bypassed exactly when the session's settings switch it off; when
\* they switch it on, a participant whose displacement exceeds the session's radius or
\* who is obstructed is never PRESENT.
C14_ShieldOfSession ==
    FinalizeAnswered =>
        \A v \in Verdicts :
            HasEvidence(v.rollNo) =>
                /\ (ShieldFor(v.rollNo).status = "Physics Bypass Active") <=> ~SessionShieldOn
                /\ (/\ SessionShieldOn
                    /\ Cardinality(SharedKeys(LatestFor(v.rollNo),
                                              LiveSession("t1").masterWifi)) >= 2
                    /\ \/ ~WithinRadius(LatestFor(v.rollNo), LiveSession("t1").masterWifi,
                                        SessionRadius)
                       \/ Obstructed(LatestFor(v.rollNo), LiveSession("t1").masterWifi))
                       => v.status # "PRESENT"

---------------------------------------------------------------------------
(* Similarity claims (SpecMath) *)

SimilarityCalled == call.fn \in SimilarityVersions

\* the score is exactly 0, exactly 100
IsZeroScore(score) == ~IsNaN(score) /\ score.dot = 0

IsHundred(score) ==
    /\ ~IsNaN(score)
    /\ score.sNorm # 0 /\ score.tNorm # 0
    /\ score.dot * score.dot = score.sNorm * score.tNorm

\* two scores are the same number
SameScore(x, y) ==
    /\ ~IsNaN(x) /\ ~IsNaN(y)
    /\ IF IsZeroScore(x) \/ IsZeroScore(y) THEN IsZeroScore(x) /\ IsZeroScore(y)
       ELSE (x.dot * x.dot) * (y.sNorm * y.tNorm) = (y.dot * y.dot) * (x.sNorm * x.tNorm)

\* the norm of a fingerprint after the offset shift is zero
ZeroNorm(fp) == \A k \in Keys(fp) : Weight(fp, k) = 0

\* C15: similarity(a, a) is 100 for every non-empty fingerprint a, a reading of 0 or of
\* the most negative plausible value included.
C15_SelfSimilarityHundred ==
    (SimilarityCalled /\ call.s = call.t /\ Keys(call.s) # {})
        => IsHundred(call.result)

\* C16: similarity(a, b) equals similarity(b, a), also when a fingerprint holds a reading
\* of 0 or a reading whose shifted weight is 0.
C16_SimilaritySymmetric ==
    SimilarityCalled
        => SameScore(call.result, Similarity(call.fn, call.t, call.s))

\* C17: similarity never divides by zero: the result is never NaN, it is exactly 0
\* whenever a fingerprint is empty or has a zero norm, and it is a number from 0 to 100.
C17_SimilarityNeverNaN ==
    SimilarityCalled
        => /\ ~IsNaN(call.result)
           /\ (ZeroNorm(call.s) \/ ZeroNorm(call.t)) => IsZeroScore(call.result)
           /\ call.result.dot >= 0
           /\ call.result.dot * call.result.dot <= call.result.sNorm * call.result.tNorm

\* C18: similarity(a, b) is 0 whenever a and b share no keys or either of them is empty.
C18_DisjointIsZero ==
    (SimilarityCalled /\ Keys(call.s) \cap Keys(call.t) = {})
        => IsZeroScore(call.result)

\* two non-empty fingerprints of non-zero norm that share no key have been compared
C18_Witness ==
    /\ SimilarityCalled
    /\ Keys(call.s) # {} /\ Keys(call.t) # {}
    /\ Keys(call.s) \cap Keys(call.t) = {}
    /\ ~ZeroNorm(call.s) /\ ~ZeroNorm(call.t)
    /\ IsZeroScore(call.result)

---------------------------------------------------------------------------
(* Shield claims (SpecMath) *)

\* the shield has been evaluated on two fingerprints
ShieldCalled ==
    /\ call.fn = "validateBubbleBoundary"
    /\ ~IsUndefined(call.s)
    /\ ~IsUndefined(call.t)

ShieldOn == env.PHYSICS_ENABLED = "true"

C21_ShieldNeverThrows ==
    call.fn \in {"validateBubbleBoundary", "validateBubbleBoundary (second version)"}
        => /\ ~Threw(call.result)
           /\ (ShieldOn /\ (IsUndefined(call.s) \/ IsUndefined(call.t)))
                 => (~call.result.valid /\ call.result.bubbleDistance = 9990)

---------------------------------------------------------------------------
(* Fault isolation in finalization (SpecFault) *)

\* C22: when the evaluation of one participant's evidence faults (its latest fingerprint
\* is missing), finalize still answers with a verdict for every other enrolled
\* participant.
C22_FaultIsolated ==
    [][FinalizeComplete("t1", Enrolled) =>
          /\ response'.code = 200
          /\ \A i \in 1..Len(Enrolled) :
                ~VerdictThrows(heap[finalizing["t1"].ref], Enrolled[i])
                   => \E j \in 1..Len(response'.reviewList) :
                         response'.reviewList[j].rollNo = Enrolled[i]]_vars

---------------------------------------------------------------------------
(* The verdict list of finalization *)

\* reviewList holds one verdict for each enrolled roll number and nothing else
OneVerdictEach(reviewList) ==
    /\ Len(reviewList) = Len(Enrolled)
    /\ \A i \in 1..Len(Enrolled) :
          Cardinality({j \in 1..Len(reviewList) : reviewList[j].rollNo = Enrolled[i]}) = 1

\* every enrolled roll number without a record in the evidence has the empty verdict
AbsentWithoutEvidence(sessionEvidence, reviewList) ==
    \A i \in 1..Len(Enrolled), j \in 1..Len(reviewList) :
       (FindByRollNo(sessionEvidence, Enrolled[i]) = 0 /\ reviewList[j].rollNo = Enrolled[i])
          => /\ reviewList[j].status = "ABSENT"
             /\ reviewList[j].rfStability = 0
             /\ reviewList[j].displacementUnits = 0
             /\ reviewList[j].flags = <<>>

\* C23: a finalize that answers returns exactly one verdict for each enrolled
\* participant, and an enrolled participant without evidence in the session is ABSENT
\* with score 0, displacement 0 and no flags (in both servers).
C23_OneVerdictPerEnrolled ==
    [][/\ (FinalizeComplete("t1", Enrolled) /\ response'.code = 200)
             => /\ OneVerdictEach(response'.reviewList)
                /\ AbsentWithoutEvidence(heap[finalizing["t1"].ref].sessionEvidence,
                                         response'.reviewList)
       /\ (FinalizeSessionOlder("t1") /\ response'.code = 200)
             => /\ OneVerdictEach(response'.reviewList)
                /\ AbsentWithoutEvidence(heap[SessionRef("t1")].sessionEvidence,
                                         response'.reviewList)]_vars

\* C24: the status of every verdict of finalize is exactly one of PRESENT, PARTIAL and
\* ABSENT (the shield status and the cluster membership are not part of it).
C24_StatusOneOfThree ==
    FinalizeAnswered => \A v \in Verdicts : v.status \in {"PRESENT", "PARTIAL", "ABSENT"}

---------------------------------------------------------------------------
(* Motion evidence (SpecFault) *)

\* the record of user sID in the live session of t1 counts as a static device
StaticDevice(sessionEvidence, sID) ==
    /\ EvidenceIndex(sessionEvidence, sID) # 0
    /\ IsStatic(sessionEvidence[EvidenceIndex(sessionEvidence, sID)].movementHistory)

\* C25: a submission without a motion value never makes the participant count as a
\* static device, and no record has an empty motion history (the average never divides
\* by zero).
C25_NoMotionIsNotStatic ==
    [][/\ (SubmitEvidence("u2", "r2", WifiRoom, "t1", UndefinedVariance)
             /\ ~StaticDevice(LiveSession("t1").sessionEvidence, "u2"))
          => ~StaticDevice(LiveSession("t1").sessionEvidence', "u2")
       /\ \A i \in 1..Len(LiveSession("t1").sessionEvidence') :
             Len(LiveSession("t1").sessionEvidence'[i].movementHistory) > 0]_vars

---------------------------------------------------------------------------
(* The evidence of a session over its lifetime (SpecSession) *)

\* slot r of the heap holds a session object
IsSessionObject(r) == "sessionEvidence" \in DOMAIN heap[r]

IsPrefix(a, b) == Len(a) <= Len(b) /\ \A i \in 1..Len(a) : a[i] = b[i]

\* every record of before is still there, and its histories have only been appended to
OnlyGrown(before, after) ==
    /\ Len(before) <= Len(after)
    /\ \A i \in 1..Len(before) :
          /\ after[i].sID = before[i].sID
          /\ after[i].rollNo = before[i].rollNo
          /\ IsPrefix(before[i].wifiHistory, after[i].wifiHistory)
          /\ IsPrefix(before[i].movementHistory, after[i].movementHistory)

\* C26: while a session object exists, no step removes a participant's record or
\* removes or rewrites an entry of a fingerprint or motion history.
C26_EvidenceOnlyGrows ==
    [][\A r \in 1..MaxOpens :
          (IsSessionObject(r) /\ IsSessionObject(r)')
             => OnlyGrown(heap[r].sessionEvidence, heap'[r].sessionEvidence)]_vars

\* the evidence has grown to two entries, the window has closed and finalize has answered
C26_Witness ==
    /\ FinalizeAnswered
    /\ HasSession("t1")
    /\ HasEvidence("r1")
    /\ Len(EvidenceFor("r1").wifiHistory) = 2
    /\ EvidenceFor("r1").wifiHistory[1] # EvidenceFor("r1").wifiHistory[2]

\* C27: a liveness flag that is true stays true through every step on the session, and a
\* repeated proof inside the open window is answered "verified" and changes nothing.
C27_LivenessOneWay ==
    [][/\ \A r \in 1..MaxOpens :
             (IsSessionObject(r) /\ IsSessionObject(r)')
                => \A i \in 1..Len(heap[r].sessionEvidence) :
                      heap[r].sessionEvidence[i].liveness
                         => /\ i <= Len(heap'[r].sessionEvidence)
                            /\ heap'[r].sessionEvidence[i].liveness
       /\ (/\ SubmitLiveness("u1", "t1")
           /\ HasSession("t1")
           /\ IsInsideWindow(LiveSession("t1"))
           /\ HasEvidence("r1")
           /\ EvidenceFor("r1").liveness)
             => (response'.code = 200 /\ heap' = heap)]_vars

\* the flag is still set after the window has closed and finalize has answered
C27_Witness ==
    /\ FinalizeAnswered
    /\ HasSession("t1")
    /\ ~LiveSession("t1").quizActive
    /\ HasEvidence("r1")
    /\ EvidenceFor("r1").liveness
    /\ Len(EvidenceFor("r1").wifiHistory) = 2

---------------------------------------------------------------------------
(* The settings of an open session *)

\* the threshold that discovery and finalization compare a score of session object r
\* with: session.settings.threshold, and GLOBAL_SETTINGS.threshold in server/index.js,
\* whose session objects have no settings
AppliedThreshold(r) ==
    IF "settings" \in DOMAIN heap[r] THEN heap[r].settings.threshold
    ELSE GLOBAL_SETTINGS.threshold

\* the verdict list finalize would answer for the session of t1 in server/index.js
OutcomeOlder == FullReportOlder(LiveSession("t1"))

\* C28: while a session object exists its settings do not change: the threshold
\* applied to it stays the one it had, and with the evidence unchanged so does the
\* outcome of finalize (in both servers).
C28_SettingsFixedAtOpen ==
    [][/\ \A r \in 1..MaxOpens :
             (IsSessionObject(r) /\ IsSessionObject(r)')
                => /\ AppliedThreshold(r)' = AppliedThreshold(r)
                   /\ "settings" \in DOMAIN heap[r] => heap'[r].settings = heap[r].settings
       /\ (HasSession("t1") /\ "settings" \notin DOMAIN LiveSession("t1") /\ heap' = heap)
             => OutcomeOlder' = OutcomeOlder]_vars

---------------------------------------------------------------------------
(* Requests against a closed session (SpecSession) *)

\* a request of a participant or of the anchor against the session of t1 arrives
RequestAgainstSession ==
    \/ \E wifi \in {WifiRoom, WifiNear} : SubmitEvidence("u1", "r1", wifi, "t1", 0)
    \/ TriggerQuiz("t1")
    \/ SubmitLiveness("u1", "t1")
    \/ FinalizeBegin("t1")

\* C29: once /save-final-attendance has removed the session of an anchor, a
\* submit-evidence, trigger-quiz, submit-liveness or finalize-session request against
\* that anchor is answered with an error and creates no session, no evidence record and
\* no liveness window.
C29_ClosedSessionRejects ==
    [][(~HasSession("t1") /\ RequestAgainstSession)
          => /\ response'.code = 400
             /\ UNCHANGED <<ACTIVE_SESSIONS, heap, timers, finalizing>>]_vars

\* the session has been closed and a finalize request against it has been rejected
C29_Witness ==
    /\ ~HasSession("t1")
    /\ response = Resp("finalize-session", "t1", "", 400, "No active session")

---------------------------------------------------------------------------
(* Discarded session objects (SpecRace) *)

\* slot r holds a session object that is not the live session of t1
IsDiscarded(r) == IsSessionObject(r) /\ r # SessionRef("t1")

\* C30: no step changes the evidence or the liveness window of a session object that
\* has been replaced or closed.
C30_DiscardedUntouched ==
    [][\A r \in 1..MaxOpens :
          (IsDiscarded(r) /\ IsSessionObject(r)')
             => /\ heap'[r].sessionEvidence = heap[r].sessionEvidence
                /\ heap'[r].quizActive = heap[r].quizActive
                /\ heap'[r].quizWindowEnd = heap[r].quizWindowEnd]_vars

\* a replaced session object, its window still open, exists while evidence has been
\* accepted into the new session and the timer of the old trigger has fired
C30_Witness ==
    /\ HasSession("t1")
    /\ \E r \in 1..MaxOpens : IsDiscarded(r) /\ heap[r].quizActive
    /\ Len(LiveSession("t1").sessionEvidence) > 0
    /\ timers = {}

---------------------------------------------------------------------------
(* The window flag of /submit-evidence (SpecWindow) *)

\* C31: /submit-evidence reports the liveness window open exactly when a
\* /submit-liveness for the same session at that instant would be accepted.
C31_WindowFlagAgreesWithProof ==
    [][\A u \in Students :
          (SubmitEvidence(u, RollNoOf(u), WifiRoom, "t1", 0) /\ HasSession("t1"))
             => ((response'.status = "ok quizActive") <=> ProofWindowOpen("t1"))]_vars

---------------------------------------------------------------------------
(* Isolation of the sessions of different anchors (SpecTwoAnchors) *)

\* a step of an operation on the session of anchor a
OnAnchor(a) ==
    \/ \E u \in Students : SubmitEvidence(u, RollNoOf(u), WifiRoom, a, 0)
    \/ TriggerQuiz(a)
    \/ \E timer \in timers : timer.teacherID = a /\ TimerFire(timer)
    \/ \E u \in Students : SubmitLiveness(u, a)
    \/ FinalizeBegin(a)
    \/ FinalizeComplete(a, Enrolled)
    \/ SaveFinalAttendance(a)

\* C32: an operation on one anchor's session leaves the session of every other anchor
\* as it is: the same object with the same evidence, liveness flags, window and settings.
C32_OtherSessionsUnchanged ==
    [][\A a, b \in Teachers :
          (a # b /\ OnAnchor(a))
             => /\ SessionRef(b)' = SessionRef(b)
                /\ HasSession(b) => heap'[SessionRef(b)] = heap[SessionRef(b)]]_vars

\* the session of t1 has had evidence, a window, a finalize and its teardown, and the
\* session of t2 still holds its evidence, its liveness flag and its open window
C32_Witness ==
    /\ response = Resp("save-final-attendance", "t1", "", 200, "success")
    /\ ~HasSession("t1")
    /\ now = MaxTime
    /\ \A timer \in timers : timer.teacherID = "t2"
    /\ HasSession("t2")
    /\ LiveSession("t2").quizActive
    /\ LiveSession("t2").sessionEvidence = OneSubmission("u2", WifiFar, 0, TRUE)

---------------------------------------------------------------------------
(* Interleaved evidence submissions (SpecEvidence) *)

\* the fingerprint history of user sID in the live session of t1 (empty without a record)
HistoryOf(sID) ==
    LET sessionEvidence == LiveSession("t1").sessionEvidence
        i == EvidenceIndex(sessionEvidence, sID)
    IN  IF i = 0 THEN <<>> ELSE sessionEvidence[i].wifiHistory

\* C33: every accepted submission appends its fingerprint to the history of the
\* submitting participant and leaves the history of every other participant as it is,
\* so under any interleaving each history is that participant's accepted submissions in
\* submission order.
C33_NoSubmissionLost ==
    [][\A u \in Students, wifi \in {WifiRoom, WifiNear} :
          (SubmitEvidence(u, RollNoOf(u), wifi, "t1", 0) /\ response'.code = 200)
             => /\ HistoryOf(u)' = Append(HistoryOf(u), wifi)
                /\ \A v \in Students \ {u} : HistoryOf(v)' = HistoryOf(v)]_vars

\* two participants have each had two different submissions accepted
C33_Witness ==
    /\ HasSession("t1")
    /\ HistoryOf("u1") = <<WifiRoom, WifiNear>>
    /\ HistoryOf("u2") = <<WifiNear, WifiRoom>>
    /\ LiveSession("t1").sessionEvidence[1].sID = "u2"

---------------------------------------------------------------------------
(* The environment mismatch (SpecMismatch) *)

\* the fingerprint shares fewer than 30% of the access points of the anchor
SharesUnder30Percent(latestWifi, masterWifi) ==
    10 * Cardinality(SharedKeys(latestWifi, masterWifi)) < 3 * Cardinality(Keys(masterWifi))

\* C34: a participant whose latest fingerprint shares fewer than 30% of the anchor's
\* access points carries the environment mismatch flag and is not PRESENT.
C34_MismatchNeverPresent ==
    FinalizeAnswered =>
        \A v \in Verdicts :
            (/\ HasEvidence(v.rollNo)
             /\ SharesUnder30Percent(LatestFor(v.rollNo), LiveSession("t1").masterWifi))
                => /\ \E i \in 1..Len(v.flags) : v.flags[i].kind = "Environment Mismatch"
                   /\ v.status # "PRESENT"

---------------------------------------------------------------------------
(* Teardown by /save-final-attendance (SpecWindow) *)

\* C35: the teardown step of /save-final-attendance happens only for an anchor that has
\* an active session (and so, all the more, only for a session that has been finalized).
C35_SaveOnlyActiveSession ==
    [][SaveFinalAttendance("t1") => HasSession("t1")]_vars

---------------------------------------------------------------------------
(* Finalization racing a reopen or a close (SpecFinalize) *)

\* C36: when the session of t1 was replaced or closed while /finalize-session waited for
\* the enrollment list, the request fails or answers the verdicts of the session that
\* is live when it resumes, never those of the replaced one.
C36_NoVerdictFromReplacedSession ==
    [][(FinalizeComplete("t1", Enrolled) /\ finalizing["t1"].ref # SessionRef("t1"))
          => \/ response'.code # 200
             \/ /\ HasSession("t1")
                /\ response'.reviewList = FullReport(LiveSession("t1"), Enrolled)]_vars

---------------------------------------------------------------------------
(* Identity of the evidence behind a verdict (SpecIdentity) *)

\* the authenticated user a roll number belongs to
OwnerOf(rollNo) == CHOOSE sID \in Students : RollNoOf(sID) = rollNo

\* the verdict of rollNo has the score and the liveness of the record of its owner, and
\* is the empty verdict when the owner has submitted nothing
FromOwnEvidence(session, v) ==
    LET i == EvidenceIndex(session.sessionEvidence, OwnerOf(v.rollNo))
        own == session.sessionEvidence[i]
    IN  IF i = 0
        THEN v.status = "ABSENT" /\ v.rfStability = 0 /\ ~v.liveness
        ELSE /\ v.liveness = own.liveness
             /\ v.rfStability =
                   ScoreFixed0(calculateSimilarity(Latest(own.wifiHistory), session.masterWifi))

\* C37: the verdict of an enrolled participant is computed from the evidence and the
\* liveness proof submitted under that participant's own authenticated identity, whatever
\* roll number other users put in their requests.
C37_VerdictFromOwnEvidence ==
    [][(FinalizeComplete("t1", Enrolled) /\ response'.code = 200)
          => \A j \in 1..Len(response'.reviewList) :
                FromOwnEvidence(heap[finalizing["t1"].ref], response'.reviewList[j])]_vars

---------------------------------------------------------------------------
(* The window closes (SpecFair) *)

\* the live session of t1 has its liveness window open
WindowOpen == HasSession("t1") /\ LiveSession("t1").quizActive

\* C38: under fair scheduling of time and of the timer callbacks, an open liveness
\* window of the session of t1 is eventually closed, or the session is torn down.
C38_WindowEventuallyCloses == WindowOpen ~> ~WindowOpen

\* a window of the live session was opened and its callback has closed it
C38_Witness ==
    /\ HasSession("t1")
    /\ ~LiveSession("t1").quizActive
    /\ LiveSession("t1").quizWindowEnd # NoWindowEnd
    /\ timers = {}
    /\ now = MaxTime

---------------------------------------------------------------------------
(* Finalization as a read (SpecSession) *)

\* a step of /finalize-session on the session of t1, in either server (such a step
\* registers or resolves the waiting request, or answers)
FinalizeStep ==
    /\ finalizing' # finalizing \/ response'.op = "finalize-session"
    /\ \/ FinalizeBegin("t1")
       \/ FinalizeComplete("t1", Enrolled)
       \/ FinalizeSessionOlder("t1")

\* C39: /finalize-session changes no session state (the map, the live session object with
\* its evidence, flags, window and settings, the timers and the process-wide settings
\* stay as they are), and a finalize answered right after another, the session being
\* neither replaced nor closed meanwhile, answers the same verdict list.
C39_FinalizeChangesNothing ==
    [][/\ FinalizeStep
             => /\ UNCHANGED <<ACTIVE_SESSIONS, timers, GLOBAL_SETTINGS>>
                /\ HasSession("t1") => heap'[SessionRef("t1")] = heap[SessionRef("t1")]
       /\ (/\ FinalizeAnswered
           /\ response'.op = "finalize-session"
           /\ response'.code = 200
           /\ FinalizeStep)
             => response'.reviewList = response.reviewList]_vars

\* finalize has answered and the session is still live with its evidence, its confirmed
\* flag and its open window
C39_Witness ==
    /\ FinalizeAnswered
    /\ finalizing["t1"] = NotFinalizing
    /\ HasSession("t1")
    /\ LiveSession("t1").quizActive
    /\ HasEvidence("r1")
    /\ EvidenceFor("r1").liveness

---------------------------------------------------------------------------
(* The scheduling gate of /set-master (SpecWindow) *)

\* a /set-master of t1 that the schedule check denies, in either server
SetMasterDenied ==
    /\ response'.op = "set-master"
    /\ \/ SetMaster("t1", WifiRoom, 0, 0, TRUE, "", "teacher")
       \/ SetMasterOlder("t1", WifiRoom, FALSE)

\* C40: a /set-master denied by the schedule check is answered 403 and changes nothing:
\* the map is as it was and a live session of the anchor keeps its evidence, window and
\* settings.
C40_DeniedOpenChangesNothing ==
    [][SetMasterDenied
          => /\ response'.code = 403
             /\ UNCHANGED <<ACTIVE_SESSIONS, heap, nextRef, timers, finalizing,
                            GLOBAL_SETTINGS>>]_vars

\* an open is denied while the anchor has a live session with evidence, a confirmed flag
\* and an open window
C40_Witness ==
    /\ response = Resp("set-master", "t1", "", 403, "No schedule today.")
    /\ HasSession("t1")
    /\ LiveSession("t1").quizActive
    /\ HasEvidence("r1")
    /\ EvidenceFor("r1").liveness

====
